---- MODULE Spec2Model ----
(***************************************************************************)
(* A model of the OpenAlerts monitoring engine (python/src): the rule      *)
(* evaluator (core/evaluator.py, core/rules.py), the event bus             *)
(* (core/event_bus.py), the persistent log (core/store.py) and the engine  *)
(* that ties them together (core/engine.py).                               *)
(*                                                                         *)
(* Conventions.                                                            *)
(*  - An optional value (Python's None or a value) is a sequence of        *)
(*    length 0 or 1: None == <<>>, Some(x) == <<x>>.                       *)
(*  - Time is the integer number of seconds since the EvaluatorState was   *)
(*    first constructed.  A synchronous call reads one clock value: all    *)
(*    the time.time() reads of one process_event call return `now`.        *)
(*  - A fingerprint is the tuple of the parts that _fingerprint joins and  *)
(*    hashes (the hash is taken to be injective on these short inputs).    *)
(***************************************************************************)
EXTENDS Integers, Sequences, FiniteSets, TLC

VARIABLES
    now,        \* the wall clock, time.time()
    config,     \* OpenAlertsConfig of the engine
    state,      \* EvaluatorState: windows, cooldowns, alerts_this_hour, hour_start, stats
    nProcessed, \* history: number of process_event calls made so far
    fires,      \* history: every alert process_event returned, with its fire time
    sets,       \* history: every write to the cooldown map, in order
    lastTrace,  \* history: the decisions of the last process_event call
    resets,     \* history: every restart of the hour bucket
    arrived,    \* history: every event handed to process_event, in order
    listeners,  \* OpenAlertsEventBus._listeners
    handles,    \* the unsubscribe callables on() has returned: the listener of each
    tasks,      \* the coroutines running emit (through ingest or directly)
    cpu,        \* the task running on the event loop, None between tasks
    returned,   \* history: every emit call that has returned
    lastBusOp,  \* history: the last on / unsubscribe / clear call
    running,    \* OpenAlertsEngine._running
    log,        \* the file <state_dir>/events.jsonl
    live_events,    \* OpenAlertsEngine._live_events
    recent_alerts,  \* OpenAlertsEngine._recent_alerts
    stats,      \* OpenAlertsEngine._stats
    wiring,     \* the channels of the dispatcher and the alert listeners
    dispatched, \* history: every alert handed to AlertDispatcher.dispatch
    sent,       \* history: every channel.send that completed
    notified,   \* history: every alert listener call
    starts,     \* history: what each start() call found in the log
    epoch,      \* history: the number of engines constructed after the first
    nIngest,    \* environment: ingest / emit calls made
    nAgents,    \* environment: the number of agent names that have sent an event
    nReuse,     \* environment: events sent again by one of the first agents
    nWarm,      \* environment: warm_from_history calls made
    dispatcher, \* AlertDispatcher: _channels and the dispatch call in progress
    delivered,  \* history: every dispatch call that has returned or raised
    prune_task, \* OpenAlertsEngine._prune_task
    prune_loops,    \* every task start() created for _prune_loop, by creation order
    prunes,     \* history: every prune_log run, with what it read and what it kept
    stopper,    \* the stop() call in progress
    failed,     \* history: every append_event call that raised
    tailer,     \* the task running _tail_events
    tailed,     \* history: every event _tail_events handed to ingest
    loaded,     \* the result of the last load_history call
    server,     \* DashboardServer: started, and the heartbeats sent
    sse_clients,    \* DashboardServer._sse_clients
    writers,    \* the SSE connections: the place of _handle_sse and what was written
    pushes,     \* the _broadcast_sse calls and the heartbeat round in progress
    pushed,     \* history: every _broadcast_sse call and heartbeat round that ended
    accepted    \* history: every ingest call made with the engine and the server running

evalVars == <<now, config, state, nProcessed, fires, sets, lastTrace, resets, arrived>>
envVars == <<nAgents, nReuse, nWarm, nIngest>>
busVars == <<listeners, handles, tasks, cpu, returned, lastBusOp>>
engineVars ==
    <<running, log, live_events, recent_alerts, stats, wiring, dispatched, sent, notified,
      starts, epoch>>
restVars == <<busVars, engineVars>>
dashVars == <<server, sse_clients, writers, pushes, pushed, accepted>>
ioVars ==
    <<dispatcher, delivered, prune_task, prune_loops, prunes, stopper, failed, tailer, tailed,
      loaded, dashVars>>
\* The ioVars start() leaves alone.
startRest ==
    <<dispatcher, delivered, prunes, stopper, failed, tailer, tailed, loaded, dashVars>>
vars == <<evalVars, envVars, busVars, engineVars, ioVars>>

----------------------------------------------------------------------------
(* Optional values *)

None == << >>
Some(x) == <<x>>
IsNone(o) == o = << >>
Get(o) == o[1]

Min(a, b) == IF a <= b THEN a ELSE b
Max(a, b) == IF a >= b THEN a ELSE b

\* s[-n:] of Python for n >= 1: the last n elements.
Tail_n(s, n) == IF Len(s) <= n THEN s ELSE SubSeq(s, Len(s) - n + 1, Len(s))

----------------------------------------------------------------------------
(* core/types.py *)

LLM_CALL == "llm.call"
LLM_ERROR == "llm.error"
LLM_TOKEN_USAGE == "llm.token_usage"
TOOL_CALL == "tool.call"
TOOL_ERROR == "tool.error"
AGENT_START == "agent.start"
AGENT_STUCK == "agent.stuck"
AGENT_STEP == "agent.step"
TOKEN_LIMIT == "token.limit_exceeded"
CUSTOM == "custom"

\* OpenAlertsEvent.  The fields no rule and no engine step reads (severity,
\* agent_class, duration_ms, error, outcome) are left out; meta is a free
\* payload.
OpenAlertsEvent(type, ts, agent_name, tool_name, step_number, max_steps, meta) ==
    [type |-> type, ts |-> ts, agent_name |-> agent_name, tool_name |-> tool_name,
     step_number |-> step_number, max_steps |-> max_steps, meta |-> meta]

\* An event that carries only a type, a timestamp and a payload.
PlainEvent(type, ts, meta) == OpenAlertsEvent(type, ts, None, None, None, None, meta)

AlertEvent(rule_id, severity, title, fingerprint, ts, events) ==
    [rule_id |-> rule_id, severity |-> severity, title |-> title,
     fingerprint |-> fingerprint, ts |-> ts, events |-> events]

----------------------------------------------------------------------------
(* core/config.py *)

\* RuleOverride.  config.rules.get(rule_id) returning None (no override) and an
\* override with every field None answer every lookup of the evaluator alike,
\* so an absent override is the all-None record.
RuleOverride(enabled, threshold, cooldown_seconds) ==
    [enabled |-> enabled, threshold |-> threshold, cooldown_seconds |-> cooldown_seconds]

NoOverride == RuleOverride(None, None, None)

----------------------------------------------------------------------------
(* core/rules.py *)

LLM_ERRORS == "llm-errors"
TOOL_ERRORS == "tool-errors"
AGENT_STUCK_RULE == "agent-stuck"
TOKEN_LIMIT_RULE == "token-limit"
STEP_LIMIT_WARNING == "step-limit-warning"
HIGH_ERROR_RATE == "high-error-rate"

\* ALL_RULES, in registration order.
ALL_RULES ==
    <<LLM_ERRORS, TOOL_ERRORS, AGENT_STUCK_RULE, TOKEN_LIMIT_RULE,
      STEP_LIMIT_WARNING, HIGH_ERROR_RATE>>

RuleIdSet == {ALL_RULES[i] : i \in 1..Len(ALL_RULES)}

default_cooldown_seconds(rule_id) == 900

default_threshold(rule_id) ==
    CASE rule_id = STEP_LIMIT_WARNING -> 80
      [] rule_id = HIGH_ERROR_RATE -> 50
      [] OTHER -> 1

\* _fingerprint(*parts): the hash of ":".join(parts), kept as the parts.
\* `name or ""` maps a missing name and the empty name to the same part.
NameOrEmpty(name) == IF IsNone(name) THEN "" ELSE Get(name)

_fingerprint(parts) == parts

----------------------------------------------------------------------------
(* core/evaluator.py: BoundedDict, an insertion-ordered map kept as the    *)
(* sequence of its items, oldest first.                                    *)

MAX_COOLDOWN_ENTRIES == 50
MAX_WINDOW_ENTRIES == 100

DictKeys(d) == {d[i].key : i \in 1..Len(d)}

\* d.get(key): None or the value.
DictGet(d, key) ==
    IF key \in DictKeys(d)
    THEN Some(d[CHOOSE i \in 1..Len(d) : d[i].key = key].value)
    ELSE None

\* OrderedDict.__setitem__: a present key keeps its place and takes the new
\* value, a new key goes last.
OrderedDictSet(d, key, value) ==
    IF key \in DictKeys(d)
    THEN [i \in 1..Len(d) |-> IF d[i].key = key THEN [key |-> key, value |-> value] ELSE d[i]]
    ELSE Append(d, [key |-> key, value |-> value])

\* OrderedDict.move_to_end(key).
MoveToEnd(d, key) ==
    SelectSeq(d, LAMBDA e : e.key # key) \o SelectSeq(d, LAMBDA e : e.key = key)

\* while len(self) > max_size: self.popitem(last=False)
RECURSIVE EvictOldest(_, _)
EvictOldest(d, max_size) ==
    IF Len(d) > max_size /\ Len(d) > 0 THEN EvictOldest(Tail(d), max_size) ELSE d

\* The same write without move_to_end: eviction by first insertion.
BoundedDictSet_NoMove(d, max_size, key, value) ==
    EvictOldest(OrderedDictSet(d, key, value), max_size)

\* BoundedDict.__setitem__
BoundedDictSet(d, max_size, key, value) ==
    EvictOldest(MoveToEnd(OrderedDictSet(d, key, value), key), max_size)

----------------------------------------------------------------------------
(* core/evaluator.py: RuleContext *)

\* A window measured back from the newest entry, the event being processed.
get_window_FromEvent(windows, rule_id, window_seconds, t) ==
    LET w == windows[rule_id]
    IN  SelectSeq(w, LAMBDA e : e.ts >= w[Len(w)].ts - window_seconds)

\* RuleContext.get_window: the rule's window filtered to e.ts >= now - seconds.
get_window(windows, rule_id, window_seconds, t) ==
    SelectSeq(windows[rule_id], LAMBDA e : e.ts >= t - window_seconds)

\* RuleContext.get_threshold
get_threshold(cfg, rule_id, default) ==
    IF ~IsNone(cfg.rules[rule_id].threshold)
    THEN Get(cfg.rules[rule_id].threshold)
    ELSE default

----------------------------------------------------------------------------
(* core/rules.py: the rules.  evaluate returns None or Some(alert); the    *)
(* alert's ts is the clock at its construction.                            *)

OfType(evs, types) == SelectSeq(evs, LAMBDA e : e.type \in types)

\* A rule that needs more errors than the threshold.
LLMErrorsRule_Strict(event, windows, cfg, t) ==
    IF event.type # LLM_ERROR THEN None
    ELSE LET errors == OfType(get_window(windows, LLM_ERRORS, 60, t), {LLM_ERROR})
             threshold == get_threshold(cfg, LLM_ERRORS, default_threshold(LLM_ERRORS))
         IN  IF Len(errors) > threshold
             THEN Some(AlertEvent(LLM_ERRORS, "error", "LLM API Errors Detected",
                                  _fingerprint(<<LLM_ERRORS>>), t, errors))
             ELSE None

LLMErrorsRule(event, windows, cfg, t) ==
    IF event.type # LLM_ERROR THEN None
    ELSE LET errors == OfType(get_window(windows, LLM_ERRORS, 60, t), {LLM_ERROR})
             threshold == get_threshold(cfg, LLM_ERRORS, default_threshold(LLM_ERRORS))
         IN  IF Len(errors) >= threshold
             THEN Some(AlertEvent(LLM_ERRORS, "error", "LLM API Errors Detected",
                                  _fingerprint(<<LLM_ERRORS>>), t, errors))
             ELSE None

ToolErrorsRule(event, windows, cfg, t) ==
    IF event.type # TOOL_ERROR THEN None
    ELSE LET errors == OfType(get_window(windows, TOOL_ERRORS, 60, t), {TOOL_ERROR})
             threshold == get_threshold(cfg, TOOL_ERRORS, default_threshold(TOOL_ERRORS))
         IN  IF Len(errors) >= threshold
             THEN Some(AlertEvent(TOOL_ERRORS, "warn", "Tool Execution Errors",
                                  _fingerprint(<<TOOL_ERRORS, NameOrEmpty(event.tool_name)>>),
                                  t, errors))
             ELSE None

AgentStuckRule(event, windows, cfg, t) ==
    IF event.type # AGENT_STUCK THEN None
    ELSE Some(AlertEvent(AGENT_STUCK_RULE, "warn", "Agent Stuck",
                         _fingerprint(<<AGENT_STUCK_RULE, NameOrEmpty(event.agent_name)>>),
                         t, <<event>>))

TokenLimitRule(event, windows, cfg, t) ==
    IF event.type # TOKEN_LIMIT THEN None
    ELSE Some(AlertEvent(TOKEN_LIMIT_RULE, "error", "Token Limit Exceeded",
                         _fingerprint(<<TOKEN_LIMIT_RULE, NameOrEmpty(event.agent_name)>>),
                         t, <<event>>))

\* The percentages are IEEE-754 doubles.  For 0 <= step_number <= max_steps and
\* max_steps in {10, 50, 100}, the pairs <<step_number, max_steps>> whose exact
\* percentage is a whole number that (step_number / max_steps) * 100 falls
\* short of: (29 / 50) * 100 is 57.99999999999999.
PctRoundsBelow == {<<29, 50>>, <<29, 100>>, <<57, 100>>, <<58, 100>>}

\* (len(errors) / 20) * 100 is the exact 5 * len(errors) but for 11 errors,
\* where it is 55.00000000000001.
RateRoundsAbove == {11}

\* A percentage computed in exact arithmetic.
step_pct_reaches_Exact(step_number, max_steps, threshold_pct) ==
    step_number * 100 >= threshold_pct * max_steps

\* pct = (step_number / max_steps) * 100; pct >= threshold_pct, for a whole
\* threshold_pct and max_steps > 0: a rounding error only decides when the
\* exact percentage is the threshold.
step_pct_reaches(step_number, max_steps, threshold_pct) ==
    \/ step_number * 100 > threshold_pct * max_steps
    \/ /\ step_number * 100 = threshold_pct * max_steps
       /\ <<step_number, max_steps>> \notin PctRoundsBelow

\* step_number / max_steps raises ZeroDivisionError.
StepLimitWarningRaises(event) ==
    /\ event.type = AGENT_STEP
    /\ ~IsNone(event.step_number) /\ ~IsNone(event.max_steps)
    /\ Get(event.max_steps) = 0

StepLimitWarningRule(event, windows, cfg, t) ==
    IF event.type # AGENT_STEP THEN None
    ELSE IF IsNone(event.step_number) \/ IsNone(event.max_steps) THEN None
    ELSE LET threshold_pct ==
                 get_threshold(cfg, STEP_LIMIT_WARNING, default_threshold(STEP_LIMIT_WARNING))
         IN  IF step_pct_reaches(Get(event.step_number), Get(event.max_steps), threshold_pct)
             THEN Some(AlertEvent(STEP_LIMIT_WARNING, "warn", "Step Limit Warning",
                                  _fingerprint(<<STEP_LIMIT_WARNING, NameOrEmpty(event.agent_name)>>),
                                  t, <<event>>))
             ELSE None

\* A rate computed in exact arithmetic.
rate_exceeds_Exact(n_errors, threshold_pct) == n_errors * 5 > threshold_pct

\* rate = (len(errors) / 20) * 100; rate > threshold_pct, for a whole threshold_pct.
rate_exceeds(n_errors, threshold_pct) ==
    \/ n_errors * 5 > threshold_pct
    \/ n_errors * 5 = threshold_pct /\ n_errors \in RateRoundsAbove

HighErrorRateRule(event, windows, cfg, t) ==
    IF event.type \notin {TOOL_CALL, TOOL_ERROR} THEN None
    ELSE LET tool_events ==
                 OfType(get_window(windows, HIGH_ERROR_RATE, 300, t), {TOOL_CALL, TOOL_ERROR})
         IN  IF Len(tool_events) < 20 THEN None
             ELSE LET recent == Tail_n(tool_events, 20)
                      errors == OfType(recent, {TOOL_ERROR})
                      threshold_pct ==
                          get_threshold(cfg, HIGH_ERROR_RATE, default_threshold(HIGH_ERROR_RATE))
                  IN  IF rate_exceeds(Len(errors), threshold_pct)
                      THEN Some(AlertEvent(HIGH_ERROR_RATE, "error", "High Tool Error Rate",
                                           _fingerprint(<<HIGH_ERROR_RATE>>), t, recent))
                      ELSE None

\* rule.evaluate(event, ctx) raises instead of returning.
evaluate_raises(rule_id, event) ==
    rule_id = STEP_LIMIT_WARNING /\ StepLimitWarningRaises(event)

\* rule.evaluate(event, ctx) of the rule registered under rule_id, when it returns.
evaluate(rule_id, event, windows, cfg, t) ==
    CASE rule_id = LLM_ERRORS -> LLMErrorsRule(event, windows, cfg, t)
      [] rule_id = TOOL_ERRORS -> ToolErrorsRule(event, windows, cfg, t)
      [] rule_id = AGENT_STUCK_RULE -> AgentStuckRule(event, windows, cfg, t)
      [] rule_id = TOKEN_LIMIT_RULE -> TokenLimitRule(event, windows, cfg, t)
      [] rule_id = STEP_LIMIT_WARNING -> StepLimitWarningRule(event, windows, cfg, t)
      [] rule_id = HIGH_ERROR_RATE -> HighErrorRateRule(event, windows, cfg, t)

----------------------------------------------------------------------------
(* core/evaluator.py: EvaluatorState and process_event *)

\* EvaluatorState() at time t.  windows.get(rule_id, deque()) makes a missing
\* window and an empty one alike, and stats.get(rule_id, 0) a missing count
\* and 0 alike.
EvaluatorState(t) ==
    [windows |-> [r \in RuleIdSet |-> << >>],
     cooldowns |-> << >>,
     alerts_this_hour |-> 0,
     hour_start |-> t,
     stats |-> [r \in RuleIdSet |-> 0]]

\* A rule that is evaluated whatever its override says.
_is_rule_enabled_Always(cfg, rule_id) == TRUE

_is_rule_enabled(cfg, rule_id) ==
    IF ~IsNone(cfg.rules[rule_id].enabled)
    THEN Get(cfg.rules[rule_id].enabled)
    ELSE TRUE

\* The resolution the comment of _get_cooldown states: per-rule override,
\* then the global config.cooldown_seconds.
_get_cooldown_WithGlobal(cfg, rule_id) ==
    IF ~IsNone(cfg.rules[rule_id].cooldown_seconds)
    THEN Get(cfg.rules[rule_id].cooldown_seconds)
    ELSE cfg.cooldown_seconds

\* _get_cooldown as written: config.cooldown_seconds is never read.
_get_cooldown(cfg, rule_id) ==
    IF ~IsNone(cfg.rules[rule_id].cooldown_seconds)
    THEN Get(cfg.rules[rule_id].cooldown_seconds)
    ELSE default_cooldown_seconds(rule_id)

\* A comparison that lets the fingerprint go one second early.
_is_cooled_down_Early(st, fingerprint, cooldown_seconds, t) ==
    LET last_fired == DictGet(st.cooldowns, fingerprint)
    IN  IF IsNone(last_fired) THEN TRUE
        ELSE (t - Get(last_fired)) >= cooldown_seconds - 1

\* A cooldown shared by all fingerprints: any recent entry suppresses.
_is_cooled_down_AnyFingerprint(st, fingerprint, cooldown_seconds, t) ==
    \A i \in 1..Len(st.cooldowns) : (t - st.cooldowns[i].value) >= cooldown_seconds

_is_cooled_down(st, fingerprint, cooldown_seconds, t) ==
    LET last_fired == DictGet(st.cooldowns, fingerprint)
    IN  IF IsNone(last_fired) THEN TRUE
        ELSE (t - Get(last_fired)) >= cooldown_seconds

\* A bucket that restarts after a quarter of an hour.
_reset_hour_if_needed_Early(st, t) ==
    IF t - st.hour_start >= 900
    THEN [st EXCEPT !.alerts_this_hour = 0, !.hour_start = t]
    ELSE st

\* Buckets on a fixed grid: the start moves on by one hour, not to the clock.
_reset_hour_if_needed_Grid(st, t) ==
    IF t - st.hour_start >= 3600
    THEN [st EXCEPT !.alerts_this_hour = 0, !.hour_start = @ + 3600]
    ELSE st

_reset_hour_if_needed(st, t) ==
    IF t - st.hour_start >= 3600
    THEN [st EXCEPT !.alerts_this_hour = 0, !.hour_start = t]
    ELSE st

\* deque(maxlen=MAX_WINDOW_ENTRIES).append(event)
DequeAppend(w, maxlen, event) ==
    IF Len(w) >= maxlen THEN Append(Tail(w), event) ELSE Append(w, event)

\* A window that drops the newest entry instead of the oldest when full.
AppendToWindows_DropNewest(st, rules, event) ==
    [st EXCEPT !.windows =
        [r \in DOMAIN st.windows |->
            IF \E i \in 1..Len(rules) : rules[i] = r
            THEN IF Len(st.windows[r]) >= MAX_WINDOW_ENTRIES
                 THEN st.windows[r]
                 ELSE Append(st.windows[r], event)
            ELSE st.windows[r]]]

\* for rule in rules: state.windows[rule.id].append(event)
AppendToWindows(st, rules, event) ==
    [st EXCEPT !.windows =
        [r \in DOMAIN st.windows |->
            IF \E i \in 1..Len(rules) : rules[i] = r
            THEN DequeAppend(st.windows[r], MAX_WINDOW_ENTRIES, event)
            ELSE st.windows[r]]]

\* A loop turn in which a match suppressed by the cooldown restarts the
\* cooldown of its fingerprint.
EvaluateRule_Refresh(acc, cfg, event, rule_id, t) ==
    IF ~_is_rule_enabled(cfg, rule_id) THEN acc
    ELSE IF evaluate_raises(rule_id, event) THEN [acc EXCEPT !.raised = TRUE]
    ELSE LET alert == evaluate(rule_id, event, acc.state.windows, cfg, t)
             Decided(outcome) ==
                 Append(acc.trace, [rule_id |-> rule_id,
                                    fingerprint |-> Get(alert).fingerprint,
                                    outcome |-> outcome])
         IN  IF IsNone(alert) THEN acc
             ELSE IF ~_is_cooled_down(acc.state, Get(alert).fingerprint,
                                      _get_cooldown(cfg, rule_id), t)
                  THEN [acc EXCEPT !.trace = Decided("cooldown"),
                                   !.state.cooldowns =
                                       BoundedDictSet(@, MAX_COOLDOWN_ENTRIES,
                                                      Get(alert).fingerprint, t)]
             ELSE IF acc.state.alerts_this_hour >= cfg.max_alerts_per_hour
                  THEN [acc EXCEPT !.trace = Decided("hourly")]
             ELSE [state |->
                     [acc.state EXCEPT
                        !.cooldowns = BoundedDictSet(acc.state.cooldowns, MAX_COOLDOWN_ENTRIES,
                                                     Get(alert).fingerprint, t),
                        !.alerts_this_hour = @ + 1,
                        !.stats = [@ EXCEPT ![rule_id] = @ + 1]],
                   fired |-> Append(acc.fired, Get(alert)),
                   trace |-> Decided("fired"),
                   raised |-> FALSE]

\* A loop body whose hourly counter counts the matches the cooldown refuses too.
EvaluateRule_CountMatches(acc, cfg, event, rule_id, t) ==
    IF ~_is_rule_enabled(cfg, rule_id) THEN acc
    ELSE IF evaluate_raises(rule_id, event) THEN [acc EXCEPT !.raised = TRUE]
    ELSE LET alert == evaluate(rule_id, event, acc.state.windows, cfg, t)
             Decided(outcome) ==
                 Append(acc.trace, [rule_id |-> rule_id,
                                    fingerprint |-> Get(alert).fingerprint,
                                    outcome |-> outcome])
         IN  IF IsNone(alert) THEN acc
             ELSE IF ~_is_cooled_down(acc.state, Get(alert).fingerprint,
                                      _get_cooldown(cfg, rule_id), t)
                  THEN [acc EXCEPT !.trace = Decided("cooldown"),
                                   !.state.alerts_this_hour = @ + 1]
             ELSE IF acc.state.alerts_this_hour >= cfg.max_alerts_per_hour
                  THEN [acc EXCEPT !.trace = Decided("hourly")]
             ELSE [state |->
                     [acc.state EXCEPT
                        !.cooldowns = BoundedDictSet(acc.state.cooldowns, MAX_COOLDOWN_ENTRIES,
                                                     Get(alert).fingerprint, t),
                        !.alerts_this_hour = @ + 1,
                        !.stats = [@ EXCEPT ![rule_id] = @ + 1]],
                   fired |-> Append(acc.fired, Get(alert)),
                   trace |-> Decided("fired"),
                   raised |-> FALSE]

\* One turn of the second loop of process_event, for rule_id.  acc carries the
\* state, the fired list and, for the history variables only, the decision
\* taken for each rule that matched ("cooldown", "hourly" or "fired").  An
\* exception of evaluate leaves process_event: raised is set and the loop ends.
EvaluateRule(acc, cfg, event, rule_id, t) ==
    IF ~_is_rule_enabled(cfg, rule_id) THEN acc
    ELSE IF evaluate_raises(rule_id, event) THEN [acc EXCEPT !.raised = TRUE]
    ELSE LET alert == evaluate(rule_id, event, acc.state.windows, cfg, t)
             Decided(outcome) ==
                 Append(acc.trace, [rule_id |-> rule_id,
                                    fingerprint |-> Get(alert).fingerprint,
                                    outcome |-> outcome])
         IN  IF IsNone(alert) THEN acc
             ELSE IF ~_is_cooled_down(acc.state, Get(alert).fingerprint,
                                      _get_cooldown(cfg, rule_id), t)
                  THEN [acc EXCEPT !.trace = Decided("cooldown")]
             ELSE IF acc.state.alerts_this_hour >= cfg.max_alerts_per_hour
                  THEN [acc EXCEPT !.trace = Decided("hourly")]
             ELSE [state |->
                     [acc.state EXCEPT
                        !.cooldowns = BoundedDictSet(acc.state.cooldowns, MAX_COOLDOWN_ENTRIES,
                                                     Get(alert).fingerprint, t),
                        !.alerts_this_hour = @ + 1,
                        !.stats = [@ EXCEPT ![rule_id] = @ + 1]],
                   fired |-> Append(acc.fired, Get(alert)),
                   trace |-> Decided("fired"),
                   raised |-> FALSE]

RECURSIVE RuleLoop(_, _, _, _, _, _)
RuleLoop(acc, cfg, event, rules, t, i) ==
    IF i > Len(rules) \/ acc.raised THEN acc
    ELSE RuleLoop(EvaluateRule(acc, cfg, event, rules[i], t), cfg, event, rules, t, i + 1)

\* A process_event that runs the rules before it fills their windows.
process_event_AppendAfter(st, cfg, event, rules, t) ==
    LET r == RuleLoop([state |-> _reset_hour_if_needed(st, t),
                       fired |-> << >>, trace |-> << >>, raised |-> FALSE],
                      cfg, event, rules, t, 1)
    IN  [r EXCEPT !.state = AppendToWindows(r.state, rules, event)]

\* process_event(state, config, event, rules) at clock t:
\* [state |-> the state after the call, fired |-> the alerts returned, trace,
\* raised |-> the call raised instead of returning].
process_event(st, cfg, event, rules, t) ==
    RuleLoop([state |-> AppendToWindows(_reset_hour_if_needed(st, t), rules, event),
              fired |-> << >>, trace |-> << >>, raised |-> FALSE],
             cfg, event, rules, t, 1)

----------------------------------------------------------------------------
(* The log file <state_dir>/events.jsonl: None when the file does not      *)
(* exist, else Some(lines).  A line is kept as what reading it gives:      *)
(* "blank" (empty once stripped), "malformed" (json.loads raises) or       *)
(* "object" with the parsed dict in data.                                  *)

\* A value of the metadata map, by its Python type.  JSON has arrays only:
\* json.loads(json.dumps(v)) gives a list for a tuple, and the value itself
\* for an int, a str or a list of these.
PyValue(py, v) == [py |-> py, v |-> v]

json_value(value) == IF value.py = "tuple" THEN PyValue("list", value.v) ELSE value

\* The metadata map read back from its JSON text: every value as JSON gives it.
json_meta(meta) ==
    IF IsNone(meta) THEN None
    ELSE Some([k \in DOMAIN Get(meta) |-> json_value(Get(meta)[k])])

\* model_dump_json() read back by json.loads: an object with one key per
\* field of the model; the events of an alert are dumped in turn.
json_event(event) == [event EXCEPT !.meta = json_meta(@)]

model_dump(model) ==
    IF "rule_id" \in DOMAIN model
    THEN [model EXCEPT !.events = [i \in 1..Len(@) |-> json_event(@[i])]]
    ELSE json_event(model)

\* event.model_dump_json() / alert.model_dump_json() as a line of the log.
JsonLine(model) == [kind |-> "object", data |-> model_dump(model)]
MalformedLine == [kind |-> "malformed"]
BlankLine == [kind |-> "blank"]

\* A line that is JSON but no object, a number, null, true or false:
\* "rule_id" in data raises TypeError.
ScalarLine == [kind |-> "scalar"]

\* "rule_id" in data and "fingerprint" in data
IsAlertShaped(line) ==
    /\ line.kind = "object"
    /\ "rule_id" \in DOMAIN line.data
    /\ "fingerprint" \in DOMAIN line.data

\* data.get("ts", 0)
TsOrZero(data) == IF "ts" \in DOMAIN data THEN data.ts ELSE 0

\* A loop body that keeps the greater of the timestamps of a fingerprint.
WarmLine_KeepLatest(st, line) ==
    IF IsAlertShaped(line)
    THEN LET old == DictGet(st.cooldowns, line.data.fingerprint)
             ts == IF ~IsNone(old) /\ Get(old) > TsOrZero(line.data)
                   THEN Get(old) ELSE TsOrZero(line.data)
         IN  [st EXCEPT !.cooldowns = BoundedDictSet(@, MAX_COOLDOWN_ENTRIES,
                                                     line.data.fingerprint, ts)]
    ELSE st

\* The body of the loop over the lines of the log, for one line.
WarmLine(st, line) ==
    IF IsAlertShaped(line)
    THEN [st EXCEPT !.cooldowns = BoundedDictSet(@, MAX_COOLDOWN_ENTRIES,
                                                 line.data.fingerprint, TsOrZero(line.data))]
    ELSE st

\* for line in f: the lines lo .. hi in order.  The range is split in two and
\* the state after the first half is bound as a value before the second half
\* goes on: both only keep the evaluation of a long log shallow and single.
RECURSIVE WarmLines(_, _, _, _)
WarmLines(st, lines, lo, hi) ==
    IF lo > hi THEN st
    ELSE IF lo = hi THEN WarmLine(st, lines[lo])
    ELSE CHOOSE after \in {WarmLines(half, lines, (lo + hi) \div 2 + 1, hi) :
                               half \in {WarmLines(st, lines, lo, (lo + hi) \div 2)}} : TRUE

\* A warm-up that stops after the first alert record of the log.
warm_from_history_FirstOnly(st, lg) ==
    IF IsNone(lg) THEN st
    ELSE LET alerts == SelectSeq(Get(lg), IsAlertShaped)
         IN  IF alerts = << >> THEN st ELSE WarmLine(st, alerts[1])

\* warm_from_history(state, state_dir, rules): the state after it.
warm_from_history(st, lg) ==
    IF IsNone(lg) THEN st ELSE WarmLines(st, Get(lg), 1, Len(Get(lg)))

----------------------------------------------------------------------------
(* core/event_bus.py.  Coroutines run on one event loop: a task keeps the  *)
(* loop (cpu) from one suspension point to the next.  A task record is one *)
(* emit call: the event, the copy list(self._listeners) taken when the     *)
(* loop starts, the listeners called so far and, for the engine's          *)
(* listener, the alerts still to be handled.                               *)

Tasks == {1, 2}

Range(s) == {s[i] : i \in 1..Len(s)}

\* OpenAlertsEngine._on_event as a bus listener.
ENGINE == "_on_event"

\* DashboardServer._on_event as a bus listener.
DASHBOARD == "DashboardServer._on_event"

IdleTask ==
    [pc |-> "idle", event |-> None, snapshot |-> {}, called |-> << >>,
     outcomes |-> << >>, raised |-> FALSE, alerts |-> << >>]

\* self._listeners.add(listener)
on(ls, listener) == ls \cup {listener}

\* self._listeners.discard(listener)
unsubscribe(ls, listener) == ls \ {listener}

\* self._listeners.clear()
clear(ls) == {}

\* A loop over the live set instead of the copy.
emit_remaining_Live(task, ls) == ls \ Range(task.called)

\* for listener in list(self._listeners): the listeners the loop has yet to call.
emit_remaining(task, ls) == task.snapshot \ Range(task.called)

\* A call without the try / except: the exception leaves emit.
emit_after_call_NoCatch(task, listener, outcome) ==
    [task EXCEPT !.called = Append(@, listener), !.outcomes = Append(@, outcome),
                 !.raised = (outcome = "raise")]

\* try: await listener(event) / except Exception: logger.exception(...)
emit_after_call(task, listener, outcome) ==
    [task EXCEPT !.called = Append(@, listener), !.outcomes = Append(@, outcome)]

\* The task may run: it holds the loop, or the loop is free and it is resumed.
CanRun(t) == cpu \in {None, Some(t)}

\* The points where a coroutine of the engine waits for file or network I/O.
Suspended(pc) == pc \in {"append_event", "dispatch", "append_alert"}

\* bus.on(listener), keeping the unsubscribe callable it returns.
Subscribe(l) ==
    /\ cpu = None
    /\ listeners' = on(listeners, l)
    /\ handles' = Append(handles, l)
    /\ lastBusOp' = [op |-> "on", listener |-> l, before |-> listeners]
    /\ UNCHANGED <<tasks, cpu, returned>>

\* A call of the h-th unsubscribe callable.
Unsubscribe(h) ==
    /\ cpu = None
    /\ h \in 1..Len(handles)
    /\ listeners' = unsubscribe(listeners, handles[h])
    /\ lastBusOp' = [op |-> "unsubscribe", listener |-> handles[h], before |-> listeners]
    /\ UNCHANGED <<handles, tasks, cpu, returned>>

\* bus.clear()
Clear ==
    /\ cpu = None
    /\ listeners' = clear(listeners)
    /\ lastBusOp' = [op |-> "clear", listener |-> "", before |-> listeners]
    /\ UNCHANGED <<handles, tasks, cpu, returned>>

\* emit(event) starts in task t: the listeners are copied.
Emit(t, event) ==
    /\ cpu = None
    /\ tasks[t].pc = "idle"
    /\ tasks' = [tasks EXCEPT ![t] = [IdleTask EXCEPT !.pc = "emit", !.event = Some(event),
                                                      !.snapshot = listeners]]
    /\ cpu' = Some(t)
    /\ UNCHANGED <<listeners, handles, returned, lastBusOp>>

\* emit calls the next listener of its loop, one that is neither the engine's
\* nor the dashboard's: the listener returns or raises an Exception, and it
\* may have waited meanwhile.
EmitCallListener(t) ==
    /\ CanRun(t)
    /\ tasks[t].pc = "emit" /\ ~tasks[t].raised
    /\ \E l \in emit_remaining(tasks[t], listeners) \ {ENGINE, DASHBOARD} :
       \E outcome \in {"ok", "raise"} :
          tasks' = [tasks EXCEPT ![t] = emit_after_call(tasks[t], l, outcome)]
    /\ cpu' = None
    /\ UNCHANGED <<listeners, handles, returned, lastBusOp>>

\* emit leaves its loop and returns (or, had an exception escaped, raises).
EmitReturn(t) ==
    /\ CanRun(t)
    /\ tasks[t].pc = "emit"
    /\ tasks[t].raised \/ emit_remaining(tasks[t], listeners) = {}
    /\ returned' = Append(returned, [snapshot |-> tasks[t].snapshot, called |-> tasks[t].called,
                                     outcomes |-> tasks[t].outcomes, raised |-> tasks[t].raised,
                                     at_return |-> listeners])
    /\ tasks' = [tasks EXCEPT ![t] = IdleTask]
    /\ cpu' = None
    /\ UNCHANGED <<listeners, handles, lastBusOp>>

----------------------------------------------------------------------------
(* The evaluator driven directly: events arrive, the clock advances.       *)

\* OpenAlertsConfig: the fields the evaluator and the engine read.
OpenAlertsConfig(rules, cooldown_seconds, max_alerts_per_hour, quiet, persist) ==
    [rules |-> rules, cooldown_seconds |-> cooldown_seconds,
     max_alerts_per_hour |-> max_alerts_per_hour, quiet |-> quiet, persist |-> persist]

\* rules = {rule_id: override}: every other rule has no override.
RulesWith(rule_id, override) ==
    [r \in RuleIdSet |-> IF r = rule_id THEN override ELSE NoOverride]

FiredRecords(fired, st, t) ==
    [i \in 1..Len(fired) |->
        [fingerprint |-> fired[i].fingerprint, rule_id |-> fired[i].rule_id,
         at |-> t, hour_start |-> st.hour_start]]

\* The cooldown writes of one process_event call and of one warm-up.
FireWrites(fired, t) ==
    [i \in 1..Len(fired) |->
        [key |-> fired[i].fingerprint, value |-> t, kind |-> "fire",
         rule_id |-> fired[i].rule_id, at |-> t]]

WarmWrites(lg, t) ==
    IF IsNone(lg) THEN << >>
    ELSE LET alerts == SelectSeq(Get(lg), IsAlertShaped)
         IN  [i \in 1..Len(alerts) |->
                 [key |-> alerts[i].data.fingerprint, value |-> TsOrZero(alerts[i].data),
                  kind |-> "warm", rule_id |-> alerts[i].data.rule_id, at |-> t]]

\* The variables after a process_event call that returned r.
Processed(r, event) ==
    /\ state' = r.state
    /\ arrived' = Append(arrived, event)
    /\ nProcessed' = nProcessed + 1
    /\ fires' = fires \o FiredRecords(r.fired, r.state, now)
    /\ sets' = sets \o FireWrites(r.fired, now)
    /\ lastTrace' = r.trace
    /\ resets' = IF r.state.hour_start # state.hour_start
                 THEN Append(resets, [at |-> now, previous |-> state.hour_start])
                 ELSE resets
    /\ UNCHANGED <<now, config>>

\* One call process_event(state, config, event, ALL_RULES) at the current clock.
ProcessEvent(event) ==
    \E r \in {process_event(state, config, event, ALL_RULES, now)} : Processed(r, event)

\* One call warm_from_history(state, state_dir, rules) on a log.
WarmFromHistory(lg) ==
    /\ state' = warm_from_history(state, lg)
    /\ sets' = sets \o WarmWrites(lg, now)
    /\ UNCHANGED <<now, config, nProcessed, fires, lastTrace, resets, arrived>>

\* The clock moves on to a later instant.
Tick(t) ==
    /\ t > now
    /\ now' = t
    /\ UNCHANGED <<config, state, nProcessed, fires, sets, lastTrace, resets, arrived>>

(* core/store.py and core/engine.py *)

_MAX_LIVE_EVENTS == 500
MAX_RECENT_ALERTS == 50
EVENT_LIMIT == 500
ALERT_LIMIT == 50

\* append_event(state_dir, event_json): the file after the write.
append_event(lg, line) == Some(IF IsNone(lg) THEN <<line>> ELSE Append(Get(lg), line))

\* "type" in data, for a line that is not an alert record
IsEventShaped(line) ==
    /\ line.kind = "object"
    /\ ~IsAlertShaped(line)
    /\ "type" \in DOMAIN line.data

DataOf(lines) == [i \in 1..Len(lines) |-> lines[i].data]

\* The values of EventType and of Severity.
EventTypes ==
    {LLM_CALL, LLM_ERROR, LLM_TOKEN_USAGE, TOOL_CALL, TOOL_ERROR, AGENT_START, "agent.end",
     "agent.error", AGENT_STUCK, AGENT_STEP, TOKEN_LIMIT, "step.limit_warning", CUSTOM}

Severities == {"info", "warn", "error", "critical"}

\* data.get(key, default)
FieldOr(data, key, default) == IF key \in DOMAIN data THEN data[key] ELSE default

\* OpenAlertsEvent.model_validate(data) raises: type is required and must be
\* a value of EventType.
event_is_valid(data) == "type" \in DOMAIN data /\ data.type \in EventTypes

\* A validation that loses the metadata.
model_validate_event_NoMeta(data) ==
    OpenAlertsEvent(data.type, FieldOr(data, "ts", now), FieldOr(data, "agent_name", None),
                    FieldOr(data, "tool_name", None), FieldOr(data, "step_number", None),
                    FieldOr(data, "max_steps", None), None)

\* OpenAlertsEvent.model_validate(data): the fields of the model, a missing
\* one at its default (ts: the time of the call), other keys ignored.
model_validate_event(data) ==
    OpenAlertsEvent(data.type, FieldOr(data, "ts", now), FieldOr(data, "agent_name", None),
                    FieldOr(data, "tool_name", None), FieldOr(data, "step_number", None),
                    FieldOr(data, "max_steps", None), FieldOr(data, "meta", None))

\* AlertEvent.model_validate(data) raises: rule_id, severity, title and
\* fingerprint are required, and so is every event of the list valid.
alert_is_valid(data) ==
    /\ {"rule_id", "severity", "title", "fingerprint"} \subseteq DOMAIN data
    /\ data.severity \in Severities
    /\ \A i \in 1..Len(FieldOr(data, "events", << >>)) : event_is_valid(data.events[i])

\* AlertEvent.model_validate(data)
model_validate_alert(data) ==
    AlertEvent(data.rule_id, data.severity, data.title, data.fingerprint,
               FieldOr(data, "ts", now),
               [i \in 1..Len(FieldOr(data, "events", << >>)) |->
                   model_validate_event(data.events[i])])

\* The lines load_history appends to alerts and to events: a line that is not
\* an object, or whose validation raises, is skipped by the except clause.
IsLoadedAlert(line) == IsAlertShaped(line) /\ alert_is_valid(line.data)
IsLoadedEvent(line) == IsEventShaped(line) /\ event_is_valid(line.data)

HistoryAlerts(lines) ==
    LET kept == SelectSeq(lines, IsLoadedAlert)
    IN  [i \in 1..Len(kept) |-> model_validate_alert(kept[i].data)]

HistoryEvents(lines) ==
    LET kept == SelectSeq(lines, IsLoadedEvent)
    IN  [i \in 1..Len(kept) |-> model_validate_event(kept[i].data)]

\* s[-n:] of Python for any n >= 0: -0 is 0, so s[-0:] is s[0:], the whole list.
PySliceLast(s, n) == IF n = 0 THEN s ELSE Tail_n(s, n)

\* load_history(state_dir, event_limit, alert_limit):
\* (events[-event_limit:], alerts[-alert_limit:])
load_history_with(lg, event_limit, alert_limit) ==
    IF IsNone(lg) THEN [events |-> << >>, alerts |-> << >>]
    ELSE [events |-> PySliceLast(HistoryEvents(Get(lg)), event_limit),
          alerts |-> PySliceLast(HistoryAlerts(Get(lg)), alert_limit)]

\* load_history(state_dir), the limits at their defaults.
load_history(lg) == load_history_with(lg, EVENT_LIMIT, ALERT_LIMIT)

\* The fingerprints of the alert records of the log.
LogFingerprints(lg) ==
    IF IsNone(lg) THEN {}
    ELSE {Get(lg)[i].data.fingerprint : i \in {j \in 1..Len(Get(lg)) : IsAlertShaped(Get(lg)[j])}}

\* The alert records of the log, by fingerprint and time.
LogRecords(lg) ==
    IF IsNone(lg) THEN {}
    ELSE {[fingerprint |-> Get(lg)[i].data.fingerprint, ts |-> TsOrZero(Get(lg)[i].data)] :
            i \in {j \in 1..Len(Get(lg)) : IsAlertShaped(Get(lg)[j])}}

\* OpenAlertsEngine._stats; tokens_used is left out, the events of the model
\* carry no token_count.
StatKeys ==
    {"events_processed", "llm_calls", "llm_errors", "tool_calls", "tool_errors",
     "agent_starts", "agent_errors", "agent_steps"}

\* _stat_map.get(event.type)
_stat_map(type) ==
    CASE type = LLM_CALL -> Some("llm_calls")
      [] type = LLM_ERROR -> Some("llm_errors")
      [] type = TOOL_CALL -> Some("tool_calls")
      [] type = TOOL_ERROR -> Some("tool_errors")
      [] type = AGENT_START -> Some("agent_starts")
      [] type = "agent.error" -> Some("agent_errors")
      [] type = AGENT_STEP -> Some("agent_steps")
      [] OTHER -> None

\* _on_event: self._stats["events_processed"] += 1 and the counter of the type
on_event_stats(st, event) ==
    [k \in StatKeys |->
        IF k = "events_processed" \/ Some(k) = _stat_map(event.type) THEN st[k] + 1 ELSE st[k]]

\* The dispatcher's channels and the engine's alert listeners, by their number.
NoWiring == [channels |-> 0, alert_listeners |-> 0]

\* A start() that handles the alerts of the log as _on_event handles fired ones.
start_Replay(st, live, recent, lg) ==
    [state |-> warm_from_history(st, lg),
     live_events |-> Tail_n(live \o load_history(lg).events, _MAX_LIVE_EVENTS),
     recent_alerts |-> Tail_n(recent \o load_history(lg).alerts, MAX_RECENT_ALERTS),
     running |-> TRUE,
     dispatch |-> load_history(lg).alerts,
     notify |-> load_history(lg).alerts]

\* A start() whose buffers have no maxlen.
start_Unbounded(st, live, recent, lg) ==
    LET history == load_history(lg)
    IN  [state |-> warm_from_history(st, lg),
         live_events |-> live \o history.events,
         recent_alerts |-> recent \o history.alerts,
         running |-> TRUE,
         dispatch |-> << >>,
         notify |-> << >>]

\* start(): the evaluator state, the buffers and the flag after it, and the
\* alerts it hands to the dispatcher and to the alert listeners: none.
start(st, live, recent, lg) ==
    LET history == load_history(lg)
    IN  [state |-> warm_from_history(st, lg),
         live_events |-> Tail_n(live \o history.events, _MAX_LIVE_EVENTS),
         recent_alerts |-> Tail_n(recent \o history.alerts, MAX_RECENT_ALERTS),
         running |-> TRUE,
         dispatch |-> << >>,
         notify |-> << >>]

\* dispatch(alert): one send per channel.
Sends(alerts) ==
    [i \in 1..(Len(alerts) * wiring.channels) |->
        [channel |-> ((i - 1) % wiring.channels) + 1,
         alert |-> alerts[((i - 1) \div wiring.channels) + 1]]]

\* _notify_alert_listeners(alert): one call per listener.
Notifications(alerts) ==
    [i \in 1..(Len(alerts) * wiring.alert_listeners) |->
        [listener |-> ((i - 1) % wiring.alert_listeners) + 1,
         alert |-> alerts[((i - 1) \div wiring.alert_listeners) + 1]]]

\* The SSE connections a run may open, and the callers of the push loop:
\* the emit tasks and, as 0, the heartbeat task.
Conns == {1, 2}
Pushers == Tasks \cup {0}

\* A connection no request has arrived on.
NoWriter == [pc |-> "none", out |-> << >>, lost |-> FALSE, closed |-> FALSE]

NoPush == [active |-> FALSE, msg |-> None, snapshot |-> {}, todo |-> {}, dead |-> {}]

InitDashboard ==
    /\ server = [started |-> FALSE, beats |-> 0]
    /\ sse_clients = {}
    /\ writers = [c \in Conns |-> NoWriter]
    /\ pushes = [p \in Pushers |-> NoPush]
    /\ pushed = << >>
    /\ accepted = << >>

\* A dispatcher without channels, no prune task, no stop() or tailer running,
\* no dashboard server.
InitIO ==
    /\ InitDashboard
    /\ dispatcher = [channels |-> << >>, call |-> None]
    /\ delivered = << >>
    /\ prune_task = None
    /\ prune_loops = << >>
    /\ prunes = << >>
    /\ stopper = [pc |-> "idle", awaiting |-> None, calls |-> 0]
    /\ failed = << >>
    /\ tailer = [pc |-> "off", pos |-> 0, pending |-> << >>]
    /\ tailed = << >>
    /\ loaded = None

InitEngine(logs, wirings) ==
    /\ InitIO
    /\ listeners = {ENGINE}
    /\ handles = << >>
    /\ tasks = [t \in Tasks |-> IdleTask]
    /\ cpu = None
    /\ returned = << >>
    /\ lastBusOp = [op |-> "on", listener |-> ENGINE, before |-> {}]
    /\ running = FALSE
    /\ log \in logs
    /\ live_events = << >>
    /\ recent_alerts = << >>
    /\ stats = [k \in StatKeys |-> 0]
    /\ wiring \in wirings
    /\ dispatched = << >>
    /\ sent = << >>
    /\ notified = << >>
    /\ starts = << >>
    /\ epoch = 0

\* A task that has been created for _prune_loop and has not run yet.
NewPruneLoop == [pc |-> "created", cancel |-> FALSE, lines |-> None, written |-> 0]

\* await engine.start(): it never waits, so the whole call is one step.  It
\* ends by creating the task of the prune loop and keeping it in _prune_task.
Start ==
    /\ cpu = None
    /\ prune_loops' = Append(prune_loops, NewPruneLoop)
    /\ prune_task' = Some(Len(prune_loops) + 1)
    /\ \E r \in {start(state, live_events, recent_alerts, log)} :
          /\ state' = r.state
          /\ live_events' = r.live_events
          /\ recent_alerts' = r.recent_alerts
          /\ running' = r.running
          /\ dispatched' = dispatched \o r.dispatch
          /\ sent' = sent \o Sends(r.dispatch)
          /\ notified' = notified \o Notifications(r.notify)
    /\ sets' = sets \o WarmWrites(log, now)
    /\ starts' = Append(starts, [at |-> now, epoch |-> epoch, nsets |-> Len(sets),
                                 fingerprints |-> LogFingerprints(log),
                                 records |-> LogRecords(log)])
    /\ UNCHANGED <<now, config, nProcessed, fires, lastTrace, resets, arrived>>
    /\ UNCHANGED <<busVars, log, stats, wiring, epoch>>

\* engine.ingest(event) starts in task t.
Ingest(t, event) ==
    /\ cpu = None
    /\ tasks[t].pc = "idle"
    /\ IF running THEN Emit(t, event) ELSE UNCHANGED busVars
    /\ UNCHANGED <<evalVars, engineVars>>

\* The pc of a task once it runs on: it keeps the loop unless pc is a wait.
Goto(t, task, pc) ==
    /\ tasks' = [tasks EXCEPT ![t] = [task EXCEPT !.pc = pc]]
    /\ cpu' = IF Suspended(pc) THEN None ELSE Some(t)
    /\ UNCHANGED <<listeners, handles, returned, lastBusOp>>

\* emit calls _on_event: live buffer, counters, then the event is persisted.
OnEventBegin(t) ==
    /\ CanRun(t)
    /\ tasks[t].pc = "emit" /\ ~tasks[t].raised
    /\ ENGINE \in emit_remaining(tasks[t], listeners)
    /\ live_events' = DequeAppend(live_events, _MAX_LIVE_EVENTS, Get(tasks[t].event))
    /\ stats' = on_event_stats(stats, Get(tasks[t].event))
    /\ Goto(t, tasks[t], IF config.persist THEN "append_event" ELSE "evaluate")
    /\ UNCHANGED <<evalVars, running, log, recent_alerts, wiring, dispatched, sent, notified,
                   starts, epoch>>

\* await append_event(state_dir, event.model_dump_json()) completes.
AppendEventDone(t) ==
    /\ cpu = None
    /\ tasks[t].pc = "append_event"
    /\ log' = append_event(log, JsonLine(Get(tasks[t].event)))
    /\ Goto(t, tasks[t], "evaluate")
    /\ UNCHANGED <<evalVars, running, live_events, recent_alerts, stats, wiring, dispatched,
                   sent, notified, starts, epoch>>

\* alerts = process_event(self._state, self._config, event, self._rules); an
\* exception of process_event leaves _on_event and is caught by emit.
Evaluate(t) ==
    /\ CanRun(t)
    /\ tasks[t].pc = "evaluate"
    /\ \E r \in {process_event(state, config, Get(tasks[t].event), ALL_RULES, now)} :
          /\ Processed(r, Get(tasks[t].event))
          /\ IF r.raised
             THEN Goto(t, emit_after_call(tasks[t], ENGINE, "raise"), "emit")
             ELSE Goto(t, [tasks[t] EXCEPT !.alerts = r.fired], "alerts")
    /\ UNCHANGED engineVars

\* An engine that calls the alert listeners without persisting the alert.
AfterDispatch_NotifyFirst == "notify"

\* The pc after the dispatch of an alert.
AfterDispatch == IF config.persist THEN "append_alert" ELSE "notify"

\* A quiet mode that is ignored.
dispatch_unless_quiet_Always(cfg) == TRUE

\* if not self._config.quiet: ... await self._dispatcher.dispatch(alert)
dispatch_unless_quiet(cfg) == ~cfg.quiet

\* for alert in alerts: recent buffer, then dispatch unless quiet.
HandleAlert(t) ==
    /\ CanRun(t)
    /\ tasks[t].pc = "alerts" /\ tasks[t].alerts # << >>
    /\ recent_alerts' = DequeAppend(recent_alerts, MAX_RECENT_ALERTS, Head(tasks[t].alerts))
    /\ dispatched' = IF dispatch_unless_quiet(config)
                     THEN Append(dispatched, Head(tasks[t].alerts))
                     ELSE dispatched
    /\ Goto(t, tasks[t], IF dispatch_unless_quiet(config) /\ wiring.channels > 0
                         THEN "dispatch" ELSE AfterDispatch)
    /\ UNCHANGED <<evalVars, running, log, live_events, stats, wiring, sent, notified,
                   starts, epoch>>

\* await self._dispatcher.dispatch(alert) completes: every channel was sent to.
DispatchDone(t) ==
    /\ cpu = None
    /\ tasks[t].pc = "dispatch"
    /\ sent' = sent \o Sends(<<Head(tasks[t].alerts)>>)
    /\ Goto(t, tasks[t], AfterDispatch)
    /\ UNCHANGED <<evalVars, running, log, live_events, recent_alerts, stats, wiring,
                   dispatched, notified, starts, epoch>>

\* await append_event(state_dir, alert.model_dump_json()) completes.
AppendAlertDone(t) ==
    /\ cpu = None
    /\ tasks[t].pc = "append_alert"
    /\ log' = append_event(log, JsonLine(Head(tasks[t].alerts)))
    /\ Goto(t, tasks[t], "notify")
    /\ UNCHANGED <<evalVars, running, live_events, recent_alerts, stats, wiring, dispatched,
                   sent, notified, starts, epoch>>

\* await self._notify_alert_listeners(alert), then the next alert.
NotifyAlertListeners(t) ==
    /\ CanRun(t)
    /\ tasks[t].pc = "notify"
    /\ notified' = notified \o Notifications(<<Head(tasks[t].alerts)>>)
    /\ Goto(t, [tasks[t] EXCEPT !.alerts = Tail(@)], "alerts")
    /\ UNCHANGED <<evalVars, running, log, live_events, recent_alerts, stats, wiring,
                   dispatched, sent, starts, epoch>>

\* _on_event returns to the loop of emit.
OnEventReturn(t) ==
    /\ CanRun(t)
    /\ tasks[t].pc = "alerts" /\ tasks[t].alerts = << >>
    /\ Goto(t, emit_after_call(tasks[t], ENGINE, "ok"), "emit")
    /\ UNCHANGED <<evalVars, engineVars>>

\* The process dies and a new one constructs an engine on the same state_dir
\* with the same configuration, channels and alert listeners.
Restart ==
    /\ state' = EvaluatorState(now)
    /\ lastTrace' = << >>
    /\ listeners' = {ENGINE}
    /\ handles' = << >>
    /\ tasks' = [t \in Tasks |-> IdleTask]
    /\ cpu' = None
    /\ lastBusOp' = [op |-> "on", listener |-> ENGINE, before |-> {}]
    /\ running' = FALSE
    /\ live_events' = << >>
    /\ recent_alerts' = << >>
    /\ stats' = [k \in StatKeys |-> 0]
    /\ epoch' = epoch + 1
    /\ prune_task' = None
    /\ prune_loops' = << >>
    /\ UNCHANGED <<now, config, nProcessed, fires, sets, resets, arrived, returned, log, wiring,
                   dispatched, sent, notified, starts>>

(* SpecEval: a few events of three fingerprints around the cooldown and the *)
(* hour boundaries.                                                         *)

MaxEvalEvents == 3

EvalInstants == {0, 899, 900, 3599, 3600, 4500}

EvalConfigs ==
    { OpenAlertsConfig(RulesWith(LLM_ERRORS, RuleOverride(None, None, cd)), g, n, FALSE, TRUE) :
        cd \in {None, Some(899)}, g \in {900, 1800}, n \in {1, 2} }

EvalEvents(t) ==
    { OpenAlertsEvent(AGENT_STUCK, t, Some(a), None, None, None, None) : a \in {"a", "b"} }
    \cup { PlainEvent(LLM_ERROR, t, None) }

InitEval ==
    /\ now = 0
    /\ config \in EvalConfigs
    /\ state = EvaluatorState(0)
    /\ nProcessed = 0
    /\ fires = << >>
    /\ sets = << >>
    /\ lastTrace = << >>
    /\ resets = << >>
    /\ arrived = << >>
    /\ nAgents = 0 /\ nReuse = 0 /\ nWarm = 0 /\ nIngest = 0
    /\ InitEngine({None}, {NoWiring})

EvalProcess ==
    /\ nProcessed < MaxEvalEvents
    /\ \E e \in EvalEvents(now) : ProcessEvent(e)
    /\ UNCHANGED <<envVars, restVars, ioVars>>

EvalTick == (\E t \in EvalInstants : Tick(t)) /\ UNCHANGED <<envVars, restVars, ioVars>>

NextEval == EvalProcess \/ EvalTick

SpecEval == InitEval /\ [][NextEval]_vars

(* SpecCooldown: more agents get stuck than the cooldown map has room for. *)
(* The agents are named in the order of their first event; the burst of    *)
(* first events is not interrupted until two agents short of a full map.   *)

MaxAgents == 52
MaxReuse == 1
BurstLimit == 60

CooldownInstants == {899, 900}

AgentName(k) == "a" \o ToString(k)

StuckEvent(name, t) == OpenAlertsEvent(AGENT_STUCK, t, Some(name), None, None, None, None)

InBurst == nAgents <= MAX_COOLDOWN_ENTRIES - 2

InitCooldown ==
    /\ now = 0
    /\ config = OpenAlertsConfig([r \in RuleIdSet |-> NoOverride], 900, BurstLimit, FALSE, TRUE)
    /\ state = EvaluatorState(0)
    /\ nProcessed = 0
    /\ fires = << >>
    /\ sets = << >>
    /\ lastTrace = << >>
    /\ resets = << >>
    /\ arrived = << >>
    /\ nAgents = 0 /\ nReuse = 0 /\ nWarm = 0 /\ nIngest = 0
    /\ InitEngine({None}, {NoWiring})

CooldownFresh ==
    /\ nAgents < MaxAgents
    /\ ProcessEvent(StuckEvent(AgentName(nAgents + 1), now))
    /\ nAgents' = nAgents + 1
    /\ UNCHANGED <<nReuse, nWarm, nIngest, restVars, ioVars>>

CooldownReuse ==
    /\ ~InBurst
    /\ nReuse < MaxReuse
    /\ \E k \in 1..2 : ProcessEvent(StuckEvent(AgentName(k), now))
    /\ nReuse' = nReuse + 1
    /\ UNCHANGED <<nAgents, nWarm, nIngest, restVars, ioVars>>

CooldownTick ==
    /\ ~InBurst
    /\ \E t \in CooldownInstants : Tick(t)
    /\ UNCHANGED <<envVars, restVars, ioVars>>

NextCooldown == CooldownFresh \/ CooldownReuse \/ CooldownTick

SpecCooldown == InitCooldown /\ [][NextCooldown]_vars

(* SpecLRU: the evaluator is warmed from the log of an earlier run that     *)
(* fills the cooldown map, then sees events of recorded and of new agents.  *)

MaxLruEvents == 2
MaxWarm == 1

LruInstants == {900}

StuckAlert(name, ts) ==
    AlertEvent(AGENT_STUCK_RULE, "warn", "Agent Stuck",
               _fingerprint(<<AGENT_STUCK_RULE, name>>), ts, << >>)

\* The log of a run in which agents a1 .. ak got stuck, in this order.
HistoryLog(k) == Some([i \in 1..k |-> JsonLine(StuckAlert(AgentName(i), 0))])

\* Logs an earlier run may have left: no file, logs that fill the map, and a log with an
\* event line, unreadable lines and a fingerprint recorded twice.
LruLogs ==
    { None,
      HistoryLog(MAX_COOLDOWN_ENTRIES),
      HistoryLog(MAX_COOLDOWN_ENTRIES + 1),
      Some(<<JsonLine(StuckAlert("x", 0)), JsonLine(StuckEvent("x", 0)), MalformedLine,
             BlankLine, JsonLine(StuckAlert(AgentName(2), 0)), JsonLine(StuckAlert("x", 0))>>) }

LruAgents == {AgentName(1), AgentName(2), "y"}

LruProcess ==
    /\ nProcessed < MaxLruEvents
    /\ \E a \in LruAgents : ProcessEvent(StuckEvent(a, now))
    /\ UNCHANGED <<envVars, restVars, ioVars>>

LruTick == (\E t \in LruInstants : Tick(t)) /\ UNCHANGED <<envVars, restVars, ioVars>>

LruWarm ==
    /\ nWarm < MaxWarm
    /\ \E lg \in LruLogs : WarmFromHistory(lg)
    /\ nWarm' = nWarm + 1
    /\ UNCHANGED <<nAgents, nReuse, nIngest, restVars, ioVars>>

NextLRU == LruProcess \/ LruTick \/ LruWarm

SpecLRU == InitCooldown /\ [][NextLRU]_vars

(* SpecBus: a bus on its own, with listeners that subscribe, unsubscribe   *)
(* and clear while two tasks publish.                                      *)

MaxHandles == 2
MaxEmits == 1

BusListeners == {"l1", "l2"}

InitBus ==
    /\ now = 0
    /\ config = OpenAlertsConfig([r \in RuleIdSet |-> NoOverride], 900, 5, FALSE, TRUE)
    /\ state = EvaluatorState(0)
    /\ nProcessed = 0
    /\ fires = << >>
    /\ sets = << >>
    /\ lastTrace = << >>
    /\ resets = << >>
    /\ arrived = << >>
    /\ nAgents = 0 /\ nReuse = 0 /\ nWarm = 0 /\ nIngest = 0
    /\ listeners = {}
    /\ handles = << >>
    /\ tasks = [t \in Tasks |-> IdleTask]
    /\ cpu = None
    /\ returned = << >>
    /\ lastBusOp = [op |-> "init", listener |-> "", before |-> {}]
    /\ running = FALSE
    /\ log = None
    /\ live_events = << >>
    /\ recent_alerts = << >>
    /\ stats = [k \in StatKeys |-> 0]
    /\ wiring = NoWiring
    /\ dispatched = << >>
    /\ sent = << >>
    /\ notified = << >>
    /\ starts = << >>
    /\ epoch = 0
    /\ InitIO

BusSubscribe ==
    /\ Len(handles) < MaxHandles
    /\ \E l \in BusListeners : Subscribe(l)
    /\ UNCHANGED <<evalVars, envVars, engineVars, ioVars>>

BusUnsubscribe ==
    /\ \E h \in 1..Len(handles) : Unsubscribe(h)
    /\ UNCHANGED <<evalVars, envVars, engineVars, ioVars>>

BusClear ==
    /\ Clear
    /\ UNCHANGED <<evalVars, envVars, engineVars, ioVars>>

BusEmit ==
    /\ nIngest < MaxEmits
    /\ \E t \in Tasks : Emit(t, PlainEvent(CUSTOM, now, None))
    /\ nIngest' = nIngest + 1
    /\ UNCHANGED <<evalVars, nAgents, nReuse, nWarm, engineVars, ioVars>>

BusCall ==
    /\ \E t \in Tasks : EmitCallListener(t)
    /\ UNCHANGED <<evalVars, envVars, engineVars, ioVars>>

BusReturn ==
    /\ \E t \in Tasks : EmitReturn(t)
    /\ UNCHANGED <<evalVars, envVars, engineVars, ioVars>>

NextBus == BusSubscribe \/ BusUnsubscribe \/ BusClear \/ BusEmit \/ BusCall \/ BusReturn

SpecBus == InitBus /\ [][NextBus]_vars

(* SpecEngine: an engine is started on a log an earlier run may have left  *)
(* and two tasks call ingest: the agent's own awaited call and the task    *)
(* patched_is_stuck creates with loop.create_task(engine.ingest(...)).     *)
(* The tasks are alike: task 2 is taken when task 1 is busy.               *)

MaxStarts == 1
MaxIngest == 2

EngineInstants == {900}

EngineConfigs ==
    { OpenAlertsConfig([r \in RuleIdSet |-> NoOverride], 900, 5, qp[1], qp[2]) :
        qp \in {<<FALSE, TRUE>>, <<TRUE, FALSE>>} }

EngineLogs ==
    { None,
      Some(<<JsonLine(StuckAlert("a", 0)), JsonLine(StuckEvent("a", 0)), MalformedLine,
             JsonLine(StuckAlert("b", 0))>>) }

EngineWirings == {NoWiring, [channels |-> 1, alert_listeners |-> 1]}

EngineEvents(t) == {StuckEvent("a", t), StuckEvent("c", t)}

InitEngineSpec ==
    /\ now = 0
    /\ config \in EngineConfigs
    /\ state = EvaluatorState(0)
    /\ nProcessed = 0
    /\ fires = << >>
    /\ sets = << >>
    /\ lastTrace = << >>
    /\ resets = << >>
    /\ arrived = << >>
    /\ nAgents = 0 /\ nReuse = 0 /\ nWarm = 0 /\ nIngest = 0
    /\ InitEngine(EngineLogs, EngineWirings)

\* emit returns to ingest, and ingest to its caller.
IngestReturn(t) == EmitReturn(t) /\ UNCHANGED <<evalVars, engineVars>>

EngineStart ==
    /\ Len(starts) < MaxStarts
    /\ Start
    /\ UNCHANGED <<envVars, startRest>>

EngineIngest ==
    /\ nIngest < MaxIngest
    /\ \E t \in Tasks : \E e \in EngineEvents(now) :
          /\ t = 1 \/ tasks[1].pc # "idle"
          /\ Ingest(t, e)
    /\ nIngest' = nIngest + 1
    /\ UNCHANGED <<nAgents, nReuse, nWarm, ioVars>>

EngineTick ==
    /\ cpu = None
    /\ \E t \in EngineInstants : Tick(t)
    /\ UNCHANGED <<envVars, restVars, ioVars>>

NextEngine ==
    \/ EngineStart
    \/ EngineIngest
    \/ EngineTick
    \/ \E t \in Tasks : OnEventBegin(t) /\ UNCHANGED <<envVars, ioVars>>
    \/ \E t \in Tasks : AppendEventDone(t) /\ UNCHANGED <<envVars, ioVars>>
    \/ \E t \in Tasks : Evaluate(t) /\ UNCHANGED <<envVars, ioVars>>
    \/ \E t \in Tasks : HandleAlert(t) /\ UNCHANGED <<envVars, ioVars>>
    \/ \E t \in Tasks : DispatchDone(t) /\ UNCHANGED <<envVars, ioVars>>
    \/ \E t \in Tasks : AppendAlertDone(t) /\ UNCHANGED <<envVars, ioVars>>
    \/ \E t \in Tasks : NotifyAlertListeners(t) /\ UNCHANGED <<envVars, ioVars>>
    \/ \E t \in Tasks : OnEventReturn(t) /\ UNCHANGED <<envVars, ioVars>>
    \/ \E t \in Tasks : IngestReturn(t) /\ UNCHANGED <<envVars, ioVars>>

SpecEngine == InitEngineSpec /\ [][NextEngine]_vars

(* SpecRecovery: an engine with persistence enabled alerts on a burst of   *)
(* stuck agents, the process dies at any point once as many agents as the  *)
(* cooldown map holds have sent their event, and a new engine is started   *)
(* on the same state directory.  One agent more than the map holds sends   *)
(* an event; after the crash the first agents send theirs again and the    *)
(* clock moves on.                                                         *)

MaxCrashes == 1

RecoveryInstants == {899, 900}

Settled == nAgents >= MAX_COOLDOWN_ENTRIES

InitRecovery ==
    /\ now = 0
    /\ config = OpenAlertsConfig([r \in RuleIdSet |-> NoOverride], 900, BurstLimit, FALSE, TRUE)
    /\ state = EvaluatorState(0)
    /\ nProcessed = 0
    /\ fires = << >>
    /\ sets = << >>
    /\ lastTrace = << >>
    /\ resets = << >>
    /\ arrived = << >>
    /\ nAgents = 0 /\ nReuse = 0 /\ nWarm = 0 /\ nIngest = 0
    /\ InitEngine({None}, {NoWiring})

RecoveryStart ==
    /\ ~running
    /\ Start
    /\ UNCHANGED <<envVars, startRest>>

RecoveryFresh ==
    /\ running
    /\ nAgents <= MAX_COOLDOWN_ENTRIES
    /\ Ingest(1, StuckEvent(AgentName(nAgents + 1), now))
    /\ nAgents' = nAgents + 1
    /\ UNCHANGED <<nReuse, nWarm, nIngest, ioVars>>

RecoveryAgain ==
    /\ running
    /\ epoch >= 1
    /\ nReuse < MaxReuse
    /\ \E k \in 1..2 : Ingest(1, StuckEvent(AgentName(k), now))
    /\ nReuse' = nReuse + 1
    /\ UNCHANGED <<nAgents, nWarm, nIngest, ioVars>>

RecoveryTick ==
    /\ epoch >= 1
    /\ cpu = None
    /\ \E t \in RecoveryInstants : Tick(t)
    /\ UNCHANGED <<envVars, restVars, ioVars>>

\* A crash inside a synchronous stretch leaves the log as the crash at the
\* wait that ends the stretch does: crashes are taken at the waits.
RecoveryCrash ==
    /\ Settled
    /\ cpu = None
    /\ epoch < MaxCrashes
    /\ Restart
    /\ UNCHANGED <<envVars, startRest>>

NextRecovery ==
    \/ RecoveryStart
    \/ RecoveryFresh
    \/ RecoveryAgain
    \/ RecoveryTick
    \/ RecoveryCrash
    \/ OnEventBegin(1) /\ UNCHANGED <<envVars, ioVars>>
    \/ AppendEventDone(1) /\ UNCHANGED <<envVars, ioVars>>
    \/ Evaluate(1) /\ UNCHANGED <<envVars, ioVars>>
    \/ HandleAlert(1) /\ UNCHANGED <<envVars, ioVars>>
    \/ AppendAlertDone(1) /\ UNCHANGED <<envVars, ioVars>>
    \/ NotifyAlertListeners(1) /\ UNCHANGED <<envVars, ioVars>>
    \/ OnEventReturn(1) /\ UNCHANGED <<envVars, ioVars>>
    \/ IngestReturn(1) /\ UNCHANGED <<envVars, ioVars>>

SpecRecovery == InitRecovery /\ [][NextRecovery]_vars

(* SpecWindow: more events than a rule window holds.  Each event carries   *)
(* its arrival number in meta; the last ones are plain or LLM errors, and  *)
(* the clock may move on between them.                                     *)

MaxWindowEvents == 102

WindowInstants == {30, 60}

Late == nProcessed >= MAX_WINDOW_ENTRIES - 1

WindowConfigs ==
    { OpenAlertsConfig([r \in RuleIdSet |-> NoOverride], 900, 5, FALSE, TRUE),
      OpenAlertsConfig(RulesWith(LLM_ERRORS, RuleOverride(Some(FALSE), None, None)),
                       900, 5, FALSE, TRUE) }

InitWindow ==
    /\ now = 0
    /\ config \in WindowConfigs
    /\ state = EvaluatorState(0)
    /\ nProcessed = 0
    /\ fires = << >>
    /\ sets = << >>
    /\ lastTrace = << >>
    /\ resets = << >>
    /\ arrived = << >>
    /\ nAgents = 0 /\ nReuse = 0 /\ nWarm = 0 /\ nIngest = 0
    /\ InitEngine({None}, {NoWiring})

WindowPlain ==
    /\ nProcessed < MaxWindowEvents
    /\ ProcessEvent(PlainEvent(CUSTOM, now, Some(nProcessed + 1)))
    /\ UNCHANGED <<envVars, restVars, ioVars>>

WindowError ==
    /\ nProcessed < MaxWindowEvents
    /\ Late
    /\ ProcessEvent(PlainEvent(LLM_ERROR, now, Some(nProcessed + 1)))
    /\ UNCHANGED <<envVars, restVars, ioVars>>

WindowTick ==
    /\ Late
    /\ \E t \in WindowInstants : Tick(t)
    /\ UNCHANGED <<envVars, restVars, ioVars>>

NextWindow == WindowPlain \/ WindowError \/ WindowTick

SpecWindow == InitWindow /\ [][NextWindow]_vars

----------------------------------------------------------------------------
(* Properties of the evaluator under SpecEval *)

FiresInBucket(h) == Cardinality({i \in 1..Len(fires) : fires[i].hour_start = h})

HasOutcome(trace, outcome) == \E i \in 1..Len(trace) : trace[i].outcome = outcome

\* C1: no hour bucket sees more than max_alerts_per_hour alerts, the counter is
\* the number of alerts fired in the current bucket, and a bucket is restarted
\* (the counter set back to 0) only by an event processed at least 3600 seconds
\* after the bucket's start.
C1_HourlyLimit ==
    /\ \A i \in 1..Len(fires) : FiresInBucket(fires[i].hour_start) <= config.max_alerts_per_hour
    /\ state.alerts_this_hour = FiresInBucket(state.hour_start)
    /\ \A i \in 1..Len(resets) : resets[i].at - resets[i].previous >= 3600

\* A full bucket was restarted, filled again, and a further match was refused.
C1_Witness ==
    /\ Len(resets) >= 1
    /\ state.alerts_this_hour = config.max_alerts_per_hour
    /\ HasOutcome(lastTrace, "hourly")

\* C3: the cooldown applied to a rule without override is the global
\* cooldown_seconds: two alerts of one fingerprint are never closer than it, and
\* a match is refused for cooldown only within it of the last alert.
C3_GlobalCooldownApplied ==
    /\ \A i, j \in 1..Len(fires) :
          (i < j /\ fires[i].fingerprint = fires[j].fingerprint)
              => fires[j].at - fires[i].at >= _get_cooldown_WithGlobal(config, fires[j].rule_id)
    /\ \A k \in 1..Len(lastTrace) :
          lastTrace[k].outcome = "cooldown"
              => \E i \in 1..Len(fires) :
                    /\ fires[i].fingerprint = lastTrace[k].fingerprint
                    /\ now - fires[i].at < _get_cooldown_WithGlobal(config, lastTrace[k].rule_id)

----------------------------------------------------------------------------
(* Properties of the cooldown map under SpecCooldown and SpecLRU *)

\* The last write of each key, in the order of these writes.
IsLastWrite(i) == \A j \in (i + 1)..Len(sets) : sets[j].key # sets[i].key

LastWrites ==
    LET last == SelectSeq([i \in 1..Len(sets) |-> i], IsLastWrite)
    IN  [k \in 1..Len(last) |-> [key |-> sets[last[k]].key, value |-> sets[last[k]].value]]

OthersBetween(i, j) == {sets[k].key : k \in (i + 1)..(j - 1)} \ {sets[i].key}

NoWarmBetween(i, j) == \A k \in (i + 1)..(j - 1) : sets[k].kind # "warm"

TwoFires(i, j) ==
    /\ i < j
    /\ sets[i].key = sets[j].key
    /\ sets[i].kind = "fire" /\ sets[j].kind = "fire"
    /\ NoWarmBetween(i, j)

\* C2 as claimed: whatever fires in between, two alerts of one fingerprint are
\* at least the rule's cooldown apart.
C2_CooldownAlways ==
    \A j \in 1..Len(sets) : \A i \in 1..(j - 1) :
        TwoFires(i, j) => sets[j].at - sets[i].at >= _get_cooldown(config, sets[j].rule_id)

\* C2 amended: two alerts of one fingerprint are at least the rule's cooldown
\* apart unless MAX_COOLDOWN_ENTRIES or more other fingerprints were set in
\* between (the first alert's entry was evicted).
C2_CooldownWhileInMap ==
    \A j \in 1..Len(sets) : \A i \in 1..(j - 1) :
        (TwoFires(i, j) /\ Cardinality(OthersBetween(i, j)) < MAX_COOLDOWN_ENTRIES)
            => sets[j].at - sets[i].at >= _get_cooldown(config, sets[j].rule_id)

\* An event of a fingerprint that fired less than the cooldown ago is refused
\* after as many other fingerprints were set as the map can hold beside it.
C2_Witness ==
    /\ Len(lastTrace) = 1 /\ lastTrace[1].outcome = "cooldown"
    /\ \E i \in 1..Len(sets) :
          /\ sets[i].kind = "fire" /\ sets[i].key = lastTrace[1].fingerprint
          /\ now - sets[i].at < _get_cooldown(config, lastTrace[1].rule_id)
          /\ Cardinality(OthersBetween(i, Len(sets) + 1)) = MAX_COOLDOWN_ENTRIES - 1

\* C8: the cooldown map holds the MAX_COOLDOWN_ENTRIES fingerprints set last,
\* each with the value of its last write, in the order of these last writes.
C8_CooldownMapLRU ==
    /\ Len(state.cooldowns) <= MAX_COOLDOWN_ENTRIES
    /\ state.cooldowns = Tail_n(LastWrites, MAX_COOLDOWN_ENTRIES)

\* An entry was evicted while the fingerprint inserted first, set again since,
\* is still in the map.
C8_Witness ==
    /\ Len(LastWrites) > MAX_COOLDOWN_ENTRIES
    /\ Len(state.cooldowns) = MAX_COOLDOWN_ENTRIES
    /\ sets[1].key \in DictKeys(state.cooldowns)
    /\ \E i \in 2..Len(sets) : sets[i].key \notin DictKeys(state.cooldowns)

----------------------------------------------------------------------------
(* Properties of the event bus under SpecBus *)

Raised(r) == \E k \in 1..Len(r.outcomes) : r.outcomes[k] = "raise"

\* C9: an emit in which a listener raised has still called every listener of
\* its copy of the listener set, and it returns without raising; an emit in
\* progress goes on after a listener raised.
C9_ListenerFailureIsolated ==
    /\ \A i \in 1..Len(returned) :
          Raised(returned[i])
              => (~returned[i].raised /\ returned[i].snapshot \subseteq Range(returned[i].called))
    /\ \A t \in Tasks : Raised(tasks[t]) => ~tasks[t].raised

\* The first listener called raised, and a second listener was called after it.
C9_Witness ==
    \E i \in 1..Len(returned) :
        /\ Len(returned[i].called) >= 2
        /\ returned[i].outcomes[1] = "raise"
        /\ ~returned[i].raised

\* C10: an emit calls exactly the listeners registered when it started, each
\* once; on() adds the listener to a set, an unsubscribe callable removes its
\* listener (and changes nothing when it is not registered), clear empties
\* the set.
C10_EachListenerOnce ==
    /\ \A i \in 1..Len(returned) :
          /\ Range(returned[i].called) = returned[i].snapshot
          /\ Len(returned[i].called) = Cardinality(returned[i].snapshot)
    /\ lastBusOp.op = "on" => listeners = lastBusOp.before \cup {lastBusOp.listener}
    /\ lastBusOp.op = "unsubscribe" => listeners = lastBusOp.before \ {lastBusOp.listener}
    /\ lastBusOp.op = "clear" => listeners = {}

\* A listener subscribed twice was called by an emit during which the set of
\* listeners changed, and a later unsubscribe found it no longer registered.
C10_Witness ==
    /\ \E i \in 1..Len(returned) :
          /\ returned[i].snapshot # returned[i].at_return
          /\ \E h1, h2 \in 1..Len(handles) :
                h1 # h2 /\ handles[h1] = handles[h2] /\ handles[h1] \in returned[i].snapshot
    /\ lastBusOp.op = "unsubscribe" /\ lastBusOp.listener \notin lastBusOp.before

----------------------------------------------------------------------------
(* Properties of the engine under SpecEngine *)

\* The task is inside _on_event: it has begun to process its event and has
\* not finished.
InOnEvent(t) ==
    tasks[t].pc \in {"append_event", "evaluate", "alerts", "dispatch", "append_alert", "notify"}

\* C4: at most one event is being processed: no task begins _on_event while
\* another task is inside it.
C4_OneEventAtATime == Cardinality({t \in Tasks : InOnEvent(t)}) <= 1

\* C5: a start() step hands no alert to the dispatcher, sends to no channel
\* and calls no alert listener; of the evaluator state it changes the
\* cooldown map only, and it leaves the log and the counters alone.
C5_StartOnlyWarms ==
    [][starts' # starts =>
          /\ dispatched' = dispatched /\ sent' = sent /\ notified' = notified
          /\ state' = [state EXCEPT !.cooldowns = state'.cooldowns]
          /\ log' = log /\ stats' = stats /\ fires' = fires]_vars

\* start() has run on a log with alert records, with a channel and an alert
\* listener registered and quiet off: the records are in the cooldown map and
\* in the buffer of recent alerts, and nothing was dispatched or notified.
C5_Witness ==
    /\ Len(starts) >= 1 /\ starts[1].fingerprints # {}
    /\ wiring.channels > 0 /\ wiring.alert_listeners > 0 /\ ~config.quiet
    /\ DictKeys(state.cooldowns) = starts[1].fingerprints
    /\ Len(recent_alerts) = Cardinality(starts[1].fingerprints)
    /\ nProcessed = 0
    /\ dispatched = << >> /\ sent = << >> /\ notified = << >>

----------------------------------------------------------------------------
(* Properties of crash recovery under SpecRecovery *)

\* sets[j] is an alert fired by the engine of start s, a new engine.
FiredAfterStart(s, j) ==
    /\ starts[s].epoch >= 1
    /\ sets[j].kind = "fire"
    /\ s < Len(starts) => j <= starts[s + 1].nsets

\* sets[i] is an alert of an earlier engine with the fingerprint of sets[j],
\* and its record is in the log that the engine of start s was started on.
Recovered(s, i, j) ==
    /\ sets[i].key = sets[j].key
    /\ sets[i].kind = "fire"
    /\ [fingerprint |-> sets[i].key, ts |-> sets[i].at] \in starts[s].records

\* The replay write of the last record of sets[j]'s fingerprint at start s.
ReplayWrite(s, j) ==
    CHOOSE w \in (starts[s].nsets + 1)..j :
        /\ sets[w].kind = "warm" /\ sets[w].key = sets[j].key
        /\ \A v \in (w + 1)..j : ~(sets[v].kind = "warm" /\ sets[v].key = sets[j].key)

\* The writes to the cooldown map made in the life of the engine of start s,
\* a new engine.
EngineSets(s) ==
    IF starts[s].epoch >= 1
    THEN (starts[s].nsets + 1)..(IF s < Len(starts) THEN starts[s + 1].nsets ELSE Len(sets))
    ELSE {}

----------------------------------------------------------------------------
(* Properties of the rule windows under SpecWindow *)

\* C7: the window of every rule holds at most MAX_WINDOW_ENTRIES events: the
\* last ones handed to process_event, in the order of their arrival.
C7_WindowLastEvents ==
    \A r \in RuleIdSet :
        /\ Len(state.windows[r]) <= MAX_WINDOW_ENTRIES
        /\ state.windows[r] = Tail_n(arrived, MAX_WINDOW_ENTRIES)

\* More events than a window holds have arrived: the full windows start at
\* the event that arrived MAX_WINDOW_ENTRIES - 1 before the last, and the
\* first event is gone.
C7_Witness ==
    /\ nProcessed > MAX_WINDOW_ENTRIES
    /\ \A r \in RuleIdSet :
          /\ Len(state.windows[r]) = MAX_WINDOW_ENTRIES
          /\ state.windows[r][1] = arrived[nProcessed - MAX_WINDOW_ENTRIES + 1]
          /\ state.windows[r][MAX_WINDOW_ENTRIES] = arrived[nProcessed]
          /\ arrived[1] \notin Range(state.windows[r])

----------------------------------------------------------------------------
(* core/dispatcher.py.  dispatch(alert) hands one _send_to_channel          *)
(* coroutine per entry of _channels to asyncio.gather and waits for all of  *)
(* them; the sends run interleaved and settle in any order.                 *)

\* The unbound ioVars of the actions below, by action.
dispatchRest ==
    <<prune_task, prune_loops, prunes, stopper, failed, tailer, tailed, loaded, dashVars>>

\* self._channels.append(channel)
add_channel(channels, channel) == Append(channels, channel)

\* *(self._send_to_channel(ch, alert) for ch in self._channels): one send per
\* entry of the list as it is when dispatch is called.
gather_sends(channels) ==
    [i \in 1..Len(channels) |-> [channel |-> channels[i], status |-> "pending"]]

\* A gather that gives up at the first failed send.
gather_done_FirstFailure(sends) ==
    \/ \A i \in 1..Len(sends) : sends[i].status # "pending"
    \/ \E i \in 1..Len(sends) : sends[i].status = "failed"

\* await asyncio.gather(..., return_exceptions=True) resumes once every send
\* has returned or raised.
gather_done(sends) == \A i \in 1..Len(sends) : sends[i].status # "pending"

\* A dispatch that lets the exception of a send out.
dispatch_raises_Propagate(sends) == \E i \in 1..Len(sends) : sends[i].status = "failed"

\* The exceptions are results of gather, logged in the loop that follows:
\* dispatch raises none of them.
dispatch_raises(sends) == FALSE

\* dispatcher.add_channel(channel)
AddChannel(channel) ==
    /\ dispatcher' = [dispatcher EXCEPT !.channels = add_channel(@, channel)]
    /\ UNCHANGED delivered

\* dispatch(alert) is called: without channels it returns at once, else the
\* sends are created and dispatch waits.
DispatchBegin(alert) ==
    /\ IsNone(dispatcher.call)
    /\ IF dispatcher.channels = << >>
       THEN /\ delivered' = Append(delivered, [alert |-> alert, channels |-> << >>,
                                               sends |-> << >>, order |-> << >>,
                                               raised |-> FALSE])
            /\ UNCHANGED dispatcher
       ELSE /\ dispatcher' = [dispatcher EXCEPT !.call =
                                 Some([alert |-> alert, channels |-> dispatcher.channels,
                                       sends |-> gather_sends(dispatcher.channels),
                                       order |-> << >>])]
            /\ UNCHANGED delivered

\* channel.send(alert) of the i-th send returns or raises an Exception.
SendSettles(i, outcome) ==
    /\ ~IsNone(dispatcher.call)
    /\ i \in 1..Len(Get(dispatcher.call).sends)
    /\ Get(dispatcher.call).sends[i].status = "pending"
    /\ ~gather_done(Get(dispatcher.call).sends)
    /\ dispatcher' = [dispatcher EXCEPT !.call =
                         Some([Get(dispatcher.call) EXCEPT !.sends[i].status = outcome,
                                                           !.order = Append(@, i)])]
    /\ UNCHANGED delivered

\* gather resumes dispatch, which logs the failures and returns.
DispatchReturn ==
    /\ ~IsNone(dispatcher.call)
    /\ gather_done(Get(dispatcher.call).sends)
    /\ delivered' = Append(delivered,
                           [alert |-> Get(dispatcher.call).alert,
                            channels |-> Get(dispatcher.call).channels,
                            sends |-> Get(dispatcher.call).sends,
                            order |-> Get(dispatcher.call).order,
                            raised |-> dispatch_raises(Get(dispatcher.call).sends)])
    /\ dispatcher' = [dispatcher EXCEPT !.call = None]

(* SpecDispatch: channels are added, the same one twice at most, while      *)
(* alerts are dispatched and the sends succeed or fail in any order.        *)

MaxChannels == 2
MaxDispatches == 1

ChannelNames == {"slack", "webhook"}

InitDispatch == InitCooldown

DispatchAdd ==
    /\ Len(dispatcher.channels) < MaxChannels
    /\ \E c \in ChannelNames : AddChannel(c)
    /\ UNCHANGED <<evalVars, envVars, restVars, dispatchRest>>

DispatchCall ==
    /\ nIngest < MaxDispatches
    /\ DispatchBegin(StuckAlert(AgentName(nIngest + 1), now))
    /\ nIngest' = nIngest + 1
    /\ UNCHANGED <<evalVars, nAgents, nReuse, nWarm, restVars, dispatchRest>>

DispatchSettle ==
    /\ \E i \in 1..MaxChannels : \E outcome \in {"ok", "failed"} : SendSettles(i, outcome)
    /\ UNCHANGED <<evalVars, envVars, restVars, dispatchRest>>

DispatchReturns ==
    /\ DispatchReturn
    /\ UNCHANGED <<evalVars, envVars, restVars, dispatchRest>>

NextDispatch == DispatchAdd \/ DispatchCall \/ DispatchSettle \/ DispatchReturns

SpecDispatch == InitDispatch /\ [][NextDispatch]_vars

(* Properties of the dispatcher under SpecDispatch *)

----------------------------------------------------------------------------
(* core/store.py: prune_log.  A line of the log may carry the length of    *)
(* its text: chars is len(line) of the stripped line as Python counts it,  *)
(* in characters, and bytes the length of its UTF-8 encoding; the two      *)
(* differ when the text holds a character outside ASCII.  A line whose     *)
(* text is not modelled counts as one character and one byte.              *)

LineChars(line) == IF "chars" \in DOMAIN line THEN line.chars ELSE 1
LineBytes(line) == IF "bytes" \in DOMAIN line THEN line.bytes ELSE 1

\* An object line of the given text length, with or without a "ts" key.
TextLine(data, chars, bytes) == [kind |-> "object", data |-> data, chars |-> chars, bytes |-> bytes]

\* The size of the file that holds the lines, each followed by "\n", in bytes.
RECURSIVE FileBytes(_)
FileBytes(lines) == IF lines = << >> THEN 0 ELSE LineBytes(Head(lines)) + 1 + FileBytes(Tail(lines))

\* sum(len(line) + 1 for line in kept)
RECURSIVE CharTotal(_)
CharTotal(lines) == IF lines = << >> THEN 0 ELSE LineChars(Head(lines)) + 1 + CharTotal(Tail(lines))

\* The number prune_log reads after "ts": the digits and dots that follow the
\* colon.  A negative number starts with "-": no digits are read, float("")
\* raises ValueError and the line counts as one without a timestamp, as does
\* a line without the text "ts".
embedded_ts(line) ==
    IF line.kind = "object" /\ "ts" \in DOMAIN line.data /\ line.data.ts >= 0
    THEN Some(line.data.ts)
    ELSE None

\* The body of the loop over the lines: blank lines are dropped, lines with a
\* timestamp older than the cutoff are dropped, every other line is kept.
kept_by_age(line, cutoff_ts) ==
    /\ line.kind # "blank"
    /\ IsNone(embedded_ts(line)) \/ Get(embedded_ts(line)) >= cutoff_ts

\* while total > max_bytes and kept: removed = kept.pop(0); total -= len(removed) + 1
RECURSIVE trim_by_size(_, _, _)
trim_by_size(kept, total, max_bytes) ==
    IF total > max_bytes /\ kept # << >>
    THEN trim_by_size(Tail(kept), total - (LineChars(Head(kept)) + 1), max_bytes)
    ELSE kept

\* The lines prune_log keeps of the lines it read.
prune_kept(lines, t, max_size_kb, max_age_days) ==
    LET cutoff_ts == t - max_age_days * 86400
        kept == SelectSeq(lines, LAMBDA line : kept_by_age(line, cutoff_ts))
    IN  trim_by_size(kept, CharTotal(kept), max_size_kb * 1024)

\* prune_log(state_dir, max_size_kb, max_age_days) run without interruption:
\* the file after it.  A missing file stays missing.
prune_log(lg, t, max_size_kb, max_age_days) ==
    IF IsNone(lg) THEN lg ELSE Some(prune_kept(Get(lg), t, max_size_kb, max_age_days))

\* One run of prune_log with nothing else running, and its record.
PruneLog(max_size_kb, max_age_days) ==
    /\ log' = prune_log(log, now, max_size_kb, max_age_days)
    /\ prunes' = Append(prunes, [before |-> log, after |-> prune_log(log, now, max_size_kb, max_age_days),
                                 at |-> now, max_size_kb |-> max_size_kb,
                                 max_age_days |-> max_age_days, running |-> running])

(* SpecPrune: a log of a few long lines, some of them with a character     *)
(* outside ASCII, some without a timestamp, is pruned a week and more      *)
(* after the clock started.                                                *)

MaxPruneLines == 3
MaxPrunes == 1

PruneInstants == {700000}

PruneSizesKb == {0, 1, 2}
PruneAgesDays == {0, 7}

\* Lines of 511 characters (512 with the newline): events stamped at the
\* cutoff of seven days, a second before it and now; one whose agent name is
\* not ASCII; a line that is no JSON; an empty line.
PruneLines ==
    { TextLine([type |-> CUSTOM, ts |-> ts], 511, 511) : ts \in {95199, 95200, 700000} }
    \cup { TextLine([type |-> CUSTOM, ts |-> 700000], 511, 512),
           [kind |-> "malformed", chars |-> 511, bytes |-> 511],
           BlankLine }

pruneRest ==
    <<dispatcher, delivered, prune_task, prune_loops, stopper, failed, tailer, tailed, loaded,
      dashVars>>

InitPrune ==
    /\ now \in PruneInstants
    /\ config = OpenAlertsConfig([r \in RuleIdSet |-> NoOverride], 900, 5, FALSE, TRUE)
    /\ state = EvaluatorState(now)
    /\ nProcessed = 0
    /\ fires = << >>
    /\ sets = << >>
    /\ lastTrace = << >>
    /\ resets = << >>
    /\ arrived = << >>
    /\ nAgents = 0 /\ nReuse = 0 /\ nWarm = 0 /\ nIngest = 0
    /\ InitEngine({Some(<< >>)}, {NoWiring})

\* A collaborator appends a line before the prune.
PruneAppend ==
    /\ prunes = << >>
    /\ Len(Get(log)) < MaxPruneLines
    /\ \E line \in PruneLines : log' = append_event(log, line)
    /\ UNCHANGED <<evalVars, envVars, busVars, running, live_events, recent_alerts, stats,
                   wiring, dispatched, sent, notified, starts, epoch, ioVars>>

PruneRun ==
    /\ Len(prunes) < MaxPrunes
    /\ \E kb \in PruneSizesKb : \E days \in PruneAgesDays : PruneLog(kb, days)
    /\ UNCHANGED <<evalVars, envVars, busVars, running, live_events, recent_alerts, stats,
                   wiring, dispatched, sent, notified, starts, epoch, pruneRest>>

NextPrune == PruneAppend \/ PruneRun

SpecPrune == InitPrune /\ [][NextPrune]_vars

(* Properties of prune_log under SpecPrune *)

\* s is t with some elements left out, the order kept.
RECURSIVE IsSubsequence(_, _)
IsSubsequence(s, t) ==
    IF s = << >> THEN TRUE
    ELSE IF t = << >> THEN FALSE
    ELSE IF Head(s) = Head(t) THEN IsSubsequence(Tail(s), Tail(t))
    ELSE IsSubsequence(s, Tail(t))

IsSuffix(s, t) == Len(s) <= Len(t) /\ s = SubSeq(t, Len(t) - Len(s) + 1, Len(t))

\* The lines the age filter of the claim keeps: those that are not blank and
\* carry no timestamp older than the cutoff.
AgeFiltered(lines, cutoff_ts) ==
    SelectSeq(lines, LAMBDA line :
        /\ line.kind # "blank"
        /\ (line.kind = "object" /\ "ts" \in DOMAIN line.data) => line.data.ts >= cutoff_ts)

\* C18: after a prune the log holds a subsequence of the lines it held, no
\* kept line carries a timestamp older than now - D * 86400, the kept lines
\* are a suffix of the age-filtered lines, and the file is at most S * 1024
\* bytes long.
C18_PruneBounds ==
    \A k \in 1..Len(prunes) :
        LET p == prunes[k]
            cutoff_ts == p.at - p.max_age_days * 86400
        IN  /\ IsSubsequence(Get(p.after), Get(p.before))
            /\ \A i \in 1..Len(Get(p.after)) :
                  (Get(p.after)[i].kind = "object" /\ "ts" \in DOMAIN Get(p.after)[i].data)
                      => Get(p.after)[i].data.ts >= cutoff_ts
            /\ IsSuffix(Get(p.after), AgeFiltered(Get(p.before), cutoff_ts))
            /\ FileBytes(Get(p.after)) <= p.max_size_kb * 1024

----------------------------------------------------------------------------
(* core/engine.py: stop() and _prune_loop.  A prune loop task is created   *)
(* by start(); it checks _running, sleeps six hours, prunes and checks     *)
(* again.  task.cancel() has CancelledError raised in the task where it    *)
(* waits, or ends a task that has not run yet.                             *)

DEFAULT_MAX_LOG_SIZE_KB == 512
DEFAULT_MAX_LOG_AGE_DAYS == 7

\* The ioVars the actions of stop() and of the prune loop leave alone.
lifeRest == <<dispatcher, delivered, failed, tailer, tailed, loaded, dashVars>>

\* The prune loop tasks that have not finished.
AliveLoops == {i \in 1..Len(prune_loops) : prune_loops[i].pc # "done"}

\* while self._running: the pc of a loop that reaches the test.
loop_test(is_running) == IF is_running THEN "sleeping" ELSE "done"

\* self._prune_task and not self._prune_task.done()
has_live_prune_task(handle, loops) == ~IsNone(handle) /\ loops[Get(handle)].pc # "done"

\* stop() up to its await, or to its end when there is no live prune task:
\* _running is cleared, the task in _prune_task is cancelled and awaited;
\* without one the listeners of the bus are cleared and stop() returns.
StopBegin ==
    /\ cpu = None
    /\ stopper.pc = "idle"
    /\ running' = FALSE
    /\ IF has_live_prune_task(prune_task, prune_loops)
       THEN /\ prune_loops' = [prune_loops EXCEPT ![Get(prune_task)].cancel = TRUE]
            /\ stopper' = [stopper EXCEPT !.pc = "await", !.awaiting = prune_task,
                                          !.calls = @ + 1]
            /\ UNCHANGED <<listeners, lastBusOp>>
       ELSE /\ listeners' = clear(listeners)
            /\ lastBusOp' = [op |-> "clear", listener |-> "", before |-> listeners]
            /\ stopper' = [stopper EXCEPT !.calls = @ + 1]
            /\ UNCHANGED prune_loops
    /\ UNCHANGED <<handles, tasks, cpu, returned, prune_task, prunes>>
    /\ UNCHANGED <<evalVars, log, live_events, recent_alerts, stats, wiring, dispatched, sent,
                   notified, starts, epoch>>

\* The awaited task has ended: self._prune_task = None, self._bus.clear().
StopResume ==
    /\ cpu = None
    /\ stopper.pc = "await"
    /\ prune_loops[Get(stopper.awaiting)].pc = "done"
    /\ prune_task' = None
    /\ listeners' = clear(listeners)
    /\ lastBusOp' = [op |-> "clear", listener |-> "", before |-> listeners]
    /\ stopper' = [stopper EXCEPT !.pc = "idle", !.awaiting = None]
    /\ UNCHANGED <<handles, tasks, cpu, returned, prune_loops, prunes>>
    /\ UNCHANGED <<evalVars, engineVars>>

\* A prune loop task runs for the first time and reaches its sleep, or ends.
PruneLoopRun(i) ==
    /\ cpu = None
    /\ prune_loops[i].pc = "created" /\ ~prune_loops[i].cancel
    /\ prune_loops' = [prune_loops EXCEPT ![i].pc = loop_test(running)]
    /\ UNCHANGED <<prune_task, prunes, stopper>>
    /\ UNCHANGED <<evalVars, busVars, engineVars>>

\* CancelledError reaches the task: a task that never ran ends, one that
\* sleeps or waits in prune_log leaves the loop by its except clause.
PruneLoopCancelled(i) ==
    /\ cpu = None
    /\ prune_loops[i].pc # "done" /\ prune_loops[i].cancel
    /\ prune_loops' = [prune_loops EXCEPT ![i].pc = "done"]
    /\ UNCHANGED <<prune_task, prunes, stopper>>
    /\ UNCHANGED <<evalVars, busVars, engineVars>>

\* The sleep of six hours is over and prune_log starts: it returns at once
\* when there is no file, else it reads the lines and waits to rewrite.
PruneLoopWake(i) ==
    /\ cpu = None
    /\ prune_loops[i].pc = "sleeping" /\ ~prune_loops[i].cancel
    /\ prunes' = Append(prunes,
                        [before |-> log,
                         after |-> prune_log(log, now, DEFAULT_MAX_LOG_SIZE_KB,
                                             DEFAULT_MAX_LOG_AGE_DAYS),
                         at |-> now, max_size_kb |-> DEFAULT_MAX_LOG_SIZE_KB,
                         max_age_days |-> DEFAULT_MAX_LOG_AGE_DAYS, running |-> running,
                         loop |-> i,
                         stopped |-> (~running /\ stopper.pc = "idle")])
    /\ prune_loops' = [prune_loops EXCEPT
                          ![i].pc = IF IsNone(log) THEN loop_test(running) ELSE "pruning",
                          ![i].lines = log]
    /\ UNCHANGED <<prune_task, stopper>>
    /\ UNCHANGED <<evalVars, busVars, engineVars>>

\* The file with a line written at the place of line k by a writer that does
\* not append: a line that is there is written over, and past the end of a
\* file cut short by another writer the gap and the line make one line that
\* is no JSON.
write_at(file, k, line) ==
    IF k <= Len(file) THEN [file EXCEPT ![k] = line]
    ELSE IF k = Len(file) + 1 THEN Append(file, line)
    ELSE Append(file, MalformedLine)

\* prune_log opens the log with mode "w", which empties it, having chosen
\* the lines to keep of those it read.
PruneLoopTruncate(i) ==
    /\ cpu = None
    /\ prune_loops[i].pc = "pruning" /\ ~prune_loops[i].cancel
    /\ log' = Some(<< >>)
    /\ prune_loops' = [prune_loops EXCEPT
                          ![i].pc = "writing",
                          ![i].lines = prune_log(prune_loops[i].lines, now,
                                                 DEFAULT_MAX_LOG_SIZE_KB,
                                                 DEFAULT_MAX_LOG_AGE_DAYS),
                          ![i].written = 0]
    /\ UNCHANGED <<prune_task, prunes, stopper>>
    /\ UNCHANGED <<evalVars, busVars, running, live_events, recent_alerts, stats, wiring,
                   dispatched, sent, notified, starts, epoch>>

\* await f.write(line + "\n") for the next kept line, at the writer's own
\* place in the file (each write is taken to reach the file as it is made).
PruneLoopWrite(i) ==
    /\ cpu = None
    /\ prune_loops[i].pc = "writing" /\ ~prune_loops[i].cancel
    /\ prune_loops[i].written < Len(Get(prune_loops[i].lines))
    /\ log' = Some(write_at(IF IsNone(log) THEN << >> ELSE Get(log),
                            prune_loops[i].written + 1,
                            Get(prune_loops[i].lines)[prune_loops[i].written + 1]))
    /\ prune_loops' = [prune_loops EXCEPT ![i].written = @ + 1]
    /\ UNCHANGED <<prune_task, prunes, stopper>>
    /\ UNCHANGED <<evalVars, busVars, running, live_events, recent_alerts, stats, wiring,
                   dispatched, sent, notified, starts, epoch>>

\* Every kept line is written: the file is closed and the loop tests
\* _running again.
PruneLoopClose(i) ==
    /\ cpu = None
    /\ prune_loops[i].pc = "writing" /\ ~prune_loops[i].cancel
    /\ prune_loops[i].written = Len(Get(prune_loops[i].lines))
    /\ prune_loops' = [prune_loops EXCEPT ![i].pc = loop_test(running), ![i].lines = None]
    /\ UNCHANGED <<prune_task, prunes, stopper>>
    /\ UNCHANGED <<evalVars, busVars, engineVars>>

(* SpecLifecycle: start() and stop() are called one after the other, in    *)
(* any order, on an engine that persists nothing; events are ingested in   *)
(* between and the prune loops run.                                        *)

MaxLifeStarts == 2
MaxStops == 2
MaxLifeIngest == 2
MaxLoopPrunes == 1

LifeLogs == {None, Some(<<JsonLine(StuckEvent("a", 0))>>)}

InitLifecycle ==
    /\ now = 0
    /\ config = OpenAlertsConfig([r \in RuleIdSet |-> NoOverride], 900, 5, TRUE, FALSE)
    /\ state = EvaluatorState(0)
    /\ nProcessed = 0
    /\ fires = << >>
    /\ sets = << >>
    /\ lastTrace = << >>
    /\ resets = << >>
    /\ arrived = << >>
    /\ nAgents = 0 /\ nReuse = 0 /\ nWarm = 0 /\ nIngest = 0
    /\ InitEngine(LifeLogs, {NoWiring})

LifeStart ==
    /\ Len(starts) < MaxLifeStarts
    /\ stopper.pc = "idle"
    /\ Start
    /\ UNCHANGED <<envVars, startRest>>

LifeStop ==
    /\ stopper.calls < MaxStops
    /\ StopBegin
    /\ UNCHANGED <<envVars, lifeRest>>

LifeIngest ==
    /\ nIngest < MaxLifeIngest
    /\ Ingest(1, PlainEvent(CUSTOM, now, None))
    /\ nIngest' = nIngest + 1
    /\ UNCHANGED <<nAgents, nReuse, nWarm, ioVars>>

LifeWake ==
    /\ Len(prunes) < MaxLoopPrunes
    /\ \E i \in 1..Len(prune_loops) : PruneLoopWake(i)
    /\ UNCHANGED <<envVars, lifeRest>>

NextLifecycle ==
    \/ LifeStart
    \/ LifeStop
    \/ LifeIngest
    \/ LifeWake
    \/ StopResume /\ UNCHANGED <<envVars, lifeRest>>
    \/ \E i \in 1..Len(prune_loops) : PruneLoopRun(i) /\ UNCHANGED <<envVars, lifeRest>>
    \/ \E i \in 1..Len(prune_loops) : PruneLoopCancelled(i) /\ UNCHANGED <<envVars, lifeRest>>
    \/ \E i \in 1..Len(prune_loops) : PruneLoopTruncate(i) /\ UNCHANGED <<envVars, lifeRest>>
    \/ \E i \in 1..Len(prune_loops) : PruneLoopWrite(i) /\ UNCHANGED <<envVars, lifeRest>>
    \/ \E i \in 1..Len(prune_loops) : PruneLoopClose(i) /\ UNCHANGED <<envVars, lifeRest>>
    \/ OnEventBegin(1) /\ UNCHANGED <<envVars, ioVars>>
    \/ Evaluate(1) /\ UNCHANGED <<envVars, ioVars>>
    \/ OnEventReturn(1) /\ UNCHANGED <<envVars, ioVars>>
    \/ IngestReturn(1) /\ UNCHANGED <<envVars, ioVars>>

SpecLifecycle == InitLifecycle /\ [][NextLifecycle]_vars

(* Properties of the engine's life cycle under SpecLifecycle *)

AllIdle == \A t \in Tasks : tasks[t].pc = "idle"

\* C12: every event ingested while the engine is running is handed to the
\* engine's listener exactly once, in the first running state and in every
\* later one: each publication that has returned called _on_event once, and
\* with no ingest in progress the events counter equals the number of
\* publications.
C12_IngestProcessedOnce ==
    /\ \A i \in 1..Len(returned) : returned[i].called = <<ENGINE>>
    /\ AllIdle => stats["events_processed"] = Len(returned)

\* stop() has returned and start() has not been called since.
Stopped == ~running /\ stopper.pc = "idle" /\ stopper.calls > 0

\* C13: at most one prune loop task is alive, none is alive once stop() has
\* returned, and no prune_log run starts between the return of stop() and
\* the next start().
C13_OnePruneLoop ==
    /\ Cardinality(AliveLoops) <= 1
    /\ Stopped => AliveLoops = {}
    /\ \A k \in 1..Len(prunes) : ~prunes[k].stopped

----------------------------------------------------------------------------
(* core/engine.py: _on_event when append_event raises (the directory       *)
(* cannot be made, the disk is full).  Nothing is written by a call that   *)
(* raises.                                                                 *)

\* An event append whose failure ends the handling of the event.
after_append_event_Fatal(outcome) == IF outcome = "raise" THEN "alerts" ELSE "evaluate"

\* try: await append_event(..., event.model_dump_json()) / except Exception:
\* logger.exception(...): the rules are evaluated next, either way.
after_append_event(outcome) == "evaluate"

\* The same around the append of an alert: the alert listeners come next.
after_append_alert(outcome) == "notify"

\* await append_event(state_dir, event.model_dump_json()) raises an Exception.
AppendEventFailed(t) ==
    /\ cpu = None
    /\ tasks[t].pc = "append_event"
    /\ failed' = Append(failed, [what |-> "event", line |-> JsonLine(Get(tasks[t].event)),
                                 processed |-> nProcessed])
    /\ Goto(t, tasks[t], after_append_event("raise"))
    /\ UNCHANGED <<evalVars, engineVars>>

\* await append_event(state_dir, alert.model_dump_json()) raises an Exception.
AppendAlertFailed(t) ==
    /\ cpu = None
    /\ tasks[t].pc = "append_alert"
    /\ failed' = Append(failed, [what |-> "alert", line |-> JsonLine(Head(tasks[t].alerts)),
                                 processed |-> nProcessed])
    /\ Goto(t, tasks[t], after_append_alert("raise"))
    /\ UNCHANGED <<evalVars, engineVars>>

(* SpecPersist: one caller ingests events of stuck agents into an engine   *)
(* with a channel and an alert listener, quiet or not, persisting or not;  *)
(* every append may fail.                                                  *)

MaxPersistIngest == 2
MaxFailures == 2

PersistInstants == {900}

PersistConfigs ==
    { OpenAlertsConfig([r \in RuleIdSet |-> NoOverride], 900, 5, qp[1], qp[2]) :
        qp \in {<<FALSE, TRUE>>, <<TRUE, TRUE>>, <<TRUE, FALSE>>} }

persistRest ==
    <<dispatcher, delivered, prune_task, prune_loops, prunes, stopper, tailer, tailed, loaded,
      dashVars>>

InitPersist ==
    /\ now = 0
    /\ config \in PersistConfigs
    /\ state = EvaluatorState(0)
    /\ nProcessed = 0
    /\ fires = << >>
    /\ sets = << >>
    /\ lastTrace = << >>
    /\ resets = << >>
    /\ arrived = << >>
    /\ nAgents = 0 /\ nReuse = 0 /\ nWarm = 0 /\ nIngest = 0
    /\ InitEngine({None}, {[channels |-> 1, alert_listeners |-> 1]})

PersistStart ==
    /\ ~running
    /\ Start
    /\ UNCHANGED <<envVars, startRest>>

PersistIngest ==
    /\ running
    /\ nIngest < MaxPersistIngest
    /\ \E e \in EngineEvents(now) : Ingest(1, e)
    /\ nIngest' = nIngest + 1
    /\ UNCHANGED <<nAgents, nReuse, nWarm, ioVars>>

PersistTick ==
    /\ cpu = None
    /\ \E t \in PersistInstants : Tick(t)
    /\ UNCHANGED <<envVars, restVars, ioVars>>

PersistEventFailed ==
    /\ Len(failed) < MaxFailures
    /\ AppendEventFailed(1)
    /\ UNCHANGED <<envVars, persistRest>>

PersistAlertFailed ==
    /\ Len(failed) < MaxFailures
    /\ AppendAlertFailed(1)
    /\ UNCHANGED <<envVars, persistRest>>

NextPersist ==
    \/ PersistStart
    \/ PersistIngest
    \/ PersistTick
    \/ PersistEventFailed
    \/ PersistAlertFailed
    \/ OnEventBegin(1) /\ UNCHANGED <<envVars, ioVars>>
    \/ AppendEventDone(1) /\ UNCHANGED <<envVars, ioVars>>
    \/ Evaluate(1) /\ UNCHANGED <<envVars, ioVars>>
    \/ HandleAlert(1) /\ UNCHANGED <<envVars, ioVars>>
    \/ DispatchDone(1) /\ UNCHANGED <<envVars, ioVars>>
    \/ AppendAlertDone(1) /\ UNCHANGED <<envVars, ioVars>>
    \/ NotifyAlertListeners(1) /\ UNCHANGED <<envVars, ioVars>>
    \/ OnEventReturn(1) /\ UNCHANGED <<envVars, ioVars>>
    \/ IngestReturn(1) /\ UNCHANGED <<envVars, ioVars>>

SpecPersist == InitPersist /\ [][NextPersist]_vars

(* Properties of the engine under SpecPersist *)

Fingerprints(alerts) == [i \in 1..Len(alerts) |-> alerts[i].fingerprint]

FailedAppends(what) == SelectSeq(failed, LAMBDA f : f.what = what)

\* The alert records of the log.
LoggedAlerts ==
    IF IsNone(log) THEN << >> ELSE DataOf(SelectSeq(Get(log), IsAlertShaped))

\* C14: whatever appends failed, no publication raised and _on_event returned
\* normally; once ingest has returned every event published was evaluated,
\* and every alert fired is in the recent-alerts buffer, was dispatched and
\* sent to the channel (unless quiet) and was handed to the alert listener.
C14_PersistFailureNotFatal ==
    /\ \A i \in 1..Len(returned) :
          ~returned[i].raised /\ returned[i].called = <<ENGINE>>
                              /\ returned[i].outcomes = <<"ok">>
    /\ AllIdle =>
          /\ nProcessed = Len(returned)
          /\ stats["events_processed"] = nProcessed
          /\ Fingerprints(recent_alerts) = Fingerprints(fires)
          /\ ~config.quiet => /\ Fingerprints(dispatched) = Fingerprints(fires)
                              /\ [i \in 1..Len(sent) |-> sent[i].alert.fingerprint]
                                     = Fingerprints(fires)
          /\ [i \in 1..Len(notified) |-> notified[i].alert.fingerprint] = Fingerprints(fires)

\* The append of an event and the append of an alert failed, the alert was
\* still sent and notified, and a later event was processed and fired too.
C14_Witness ==
    /\ AllIdle
    /\ ~config.quiet
    /\ FailedAppends("event") # << >> /\ FailedAppends("alert") # << >>
    /\ failed[Len(failed)].processed = 1
    /\ nProcessed = 2
    /\ Len(fires) = 2 /\ Len(sent) = 2 /\ Len(notified) = 2

\* C15: in quiet mode nothing is handed to the dispatcher and no channel
\* send is made; once ingest has returned every alert fired is in the
\* recent-alerts buffer, was handed to the alert listener, is in the log when
\* persistence is on and its append did not fail, has its fingerprint in the
\* cooldown map with the fire time, and has taken one of the hour's slots.
C15_QuietMode ==
    config.quiet =>
        /\ dispatched = << >> /\ sent = << >>
        /\ \A t \in Tasks : tasks[t].pc # "dispatch"
        /\ AllIdle =>
              /\ Fingerprints(recent_alerts) = Fingerprints(fires)
              /\ [i \in 1..Len(notified) |-> notified[i].alert.fingerprint] = Fingerprints(fires)
              /\ config.persist =>
                    Len(LoggedAlerts) + Len(FailedAppends("alert")) = Len(fires)
              /\ ~config.persist => log = None
              /\ \A i \in 1..Len(fires) :
                    /\ fires[i].fingerprint \in DictKeys(state.cooldowns)
                    /\ Get(DictGet(state.cooldowns, fires[i].fingerprint)) >= fires[i].at
              /\ state.alerts_this_hour = Len(fires)

\* A quiet, persisting engine fired an alert: it is in the buffer and in the
\* log, the listener was called and no send was made.
C15_Witness ==
    /\ config.quiet /\ config.persist
    /\ AllIdle
    /\ Len(fires) >= 1
    /\ Len(LoggedAlerts) = Len(fires)
    /\ Len(notified) = Len(fires)
    /\ sent = << >>

----------------------------------------------------------------------------
(* SpecHistory: a log is built from events and alerts the engine appends   *)
(* and from lines of other shapes, and load_history reads it with small    *)
(* limits.                                                                 *)

MaxHistoryLines == 2
MaxLimit == 2

historyRest ==
    <<dispatcher, delivered, prune_task, prune_loops, prunes, stopper, failed, tailer, tailed,
      dashVars>>

MetaEvent(value) == PlainEvent(CUSTOM, 0, Some([k |-> value]))

\* Events with and without metadata and alerts with and without the event
\* that raised them.
HistoryModels ==
    { StuckEvent("a", 0),
      MetaEvent(PyValue("int", 1)),
      MetaEvent(PyValue("list", <<1, 2>>)),
      MetaEvent(PyValue("tuple", <<1, 2>>)),
      StuckAlert("a", 0),
      AlertEvent(AGENT_STUCK_RULE, "warn", "Agent Stuck",
                 _fingerprint(<<AGENT_STUCK_RULE, "b">>), 0, <<StuckEvent("b", 0)>>) }

\* Lines no model was dumped to: no JSON, empty, JSON that is no object, an
\* object without a type, one with an unknown type, and an object with the
\* keys of an alert and a type but without the title an alert needs.
OddLines ==
    { MalformedLine, BlankLine, ScalarLine,
      [kind |-> "object", data |-> [ts |-> 0]],
      [kind |-> "object", data |-> [type |-> "bogus", ts |-> 0]],
      [kind |-> "object", data |-> [rule_id |-> AGENT_STUCK_RULE, fingerprint |-> <<"x">>,
                                    type |-> CUSTOM, ts |-> 0]] }

InitHistory ==
    /\ now = 0
    /\ config = OpenAlertsConfig([r \in RuleIdSet |-> NoOverride], 900, 5, FALSE, TRUE)
    /\ state = EvaluatorState(0)
    /\ nProcessed = 0
    /\ fires = << >>
    /\ sets = << >>
    /\ lastTrace = << >>
    /\ resets = << >>
    /\ arrived = << >>
    /\ nAgents = 0 /\ nReuse = 0 /\ nWarm = 0 /\ nIngest = 0
    /\ InitEngine({None}, {NoWiring})

LogLength == IF IsNone(log) THEN 0 ELSE Len(Get(log))

\* A line of another shape gets into the log.
HistoryOddLine ==
    /\ LogLength < MaxHistoryLines
    /\ \E line \in OddLines : log' = append_event(log, line)
    /\ loaded' = None
    /\ UNCHANGED <<evalVars, envVars, busVars, running, live_events, recent_alerts, stats,
                   wiring, dispatched, sent, notified, starts, epoch, historyRest>>

\* append_event(state_dir, model.model_dump_json()), then load_history(state_dir).
HistoryRoundTrip ==
    /\ LogLength < MaxHistoryLines
    /\ \E model \in HistoryModels :
          /\ log' = append_event(log, JsonLine(model))
          /\ loaded' = Some([appended |-> Some(model),
                             events |-> load_history(append_event(log, JsonLine(model))).events,
                             alerts |-> load_history(append_event(log, JsonLine(model))).alerts,
                             event_limit |-> EVENT_LIMIT, alert_limit |-> ALERT_LIMIT])
    /\ UNCHANGED <<evalVars, envVars, busVars, running, live_events, recent_alerts, stats,
                   wiring, dispatched, sent, notified, starts, epoch, historyRest>>

\* load_history(state_dir, event_limit, alert_limit)
HistoryLoad ==
    /\ \E event_limit \in 0..MaxLimit : \E alert_limit \in 0..MaxLimit :
          loaded' = Some([appended |-> None,
                          events |-> load_history_with(log, event_limit, alert_limit).events,
                          alerts |-> load_history_with(log, event_limit, alert_limit).alerts,
                          event_limit |-> event_limit, alert_limit |-> alert_limit])
    /\ UNCHANGED <<evalVars, envVars, restVars, historyRest>>

NextHistory == HistoryOddLine \/ HistoryRoundTrip \/ HistoryLoad

SpecHistory == InitHistory /\ [][NextHistory]_vars

(* Properties of the store under SpecHistory *)

\* The last n elements of s, all of s when it has fewer.
LastN(s, n) == SubSeq(s, Len(s) - Min(n, Len(s)) + 1, Len(s))

LogLines == IF IsNone(log) THEN << >> ELSE Get(log)

\* C16: load_history returns the last event_limit of the valid lines with a
\* type key that are not alert-shaped, and the last alert_limit of the valid
\* lines with both a rule_id and a fingerprint key, in log order; blank,
\* malformed and invalid lines are left out and a missing log gives two empty
\* lists.
C16_LoadHistory ==
    ~IsNone(loaded) =>
        /\ Get(loaded).events = LastN(HistoryEvents(LogLines), Get(loaded).event_limit)
        /\ Get(loaded).alerts = LastN(HistoryAlerts(LogLines), Get(loaded).alert_limit)

\* The model the last round trip appended, and what load_history gave for it.
Appended == Get(Get(loaded).appended)
IsRoundTrip == ~IsNone(loaded) /\ ~IsNone(Get(loaded).appended)
LoadedBack ==
    IF "rule_id" \in DOMAIN Appended
    THEN Get(loaded).alerts[Len(Get(loaded).alerts)]
    ELSE Get(loaded).events[Len(Get(loaded).events)]

\* The values JSON gives back as they are.
JsonNative(model) ==
    IF "rule_id" \in DOMAIN model
    THEN \A i \in 1..Len(model.events) : json_event(model.events[i]) = model.events[i]
    ELSE json_event(model) = model

----------------------------------------------------------------------------
(* SpecPruneRace: a persisting engine is started on a log with old and     *)
(* recent lines; its prune loop wakes once and prunes while events are     *)
(* ingested, so that the appends of _on_event and the steps of prune_log   *)
(* take turns at their awaits.                                             *)

MaxRaceLines == 2
MaxRaceIngest == 2
MaxRacePrunes == 1

RaceInstants == {700000}

\* An event of the first instant, too old to be kept, and one of now.
RaceLines == {JsonLine(StuckEvent("a", 0)), JsonLine(StuckEvent("a", 700000))}

RaceLogs == {Some(lines) : lines \in UNION {[1..n -> RaceLines] : n \in 1..MaxRaceLines}}

InitPruneRace ==
    /\ now \in RaceInstants
    /\ config = OpenAlertsConfig([r \in RuleIdSet |-> NoOverride], 900, 5, TRUE, TRUE)
    /\ state = EvaluatorState(now)
    /\ nProcessed = 0
    /\ fires = << >>
    /\ sets = << >>
    /\ lastTrace = << >>
    /\ resets = << >>
    /\ arrived = << >>
    /\ nAgents = 0 /\ nReuse = 0 /\ nWarm = 0 /\ nIngest = 0
    /\ InitEngine(RaceLogs, {NoWiring})

RaceStart ==
    /\ starts = << >>
    /\ Start
    /\ UNCHANGED <<envVars, startRest>>

RaceIngest ==
    /\ nIngest < MaxRaceIngest
    /\ Ingest(1, PlainEvent(CUSTOM, now, None))
    /\ nIngest' = nIngest + 1
    /\ UNCHANGED <<nAgents, nReuse, nWarm, ioVars>>

RaceWake ==
    /\ Len(prunes) < MaxRacePrunes
    /\ prune_loops # << >>
    /\ PruneLoopWake(1)
    /\ UNCHANGED <<envVars, lifeRest>>

NextPruneRace ==
    \/ RaceStart
    \/ RaceIngest
    \/ RaceWake
    \/ (prune_loops # << >> /\ PruneLoopRun(1)) /\ UNCHANGED <<envVars, lifeRest>>
    \/ (prune_loops # << >> /\ PruneLoopTruncate(1)) /\ UNCHANGED <<envVars, lifeRest>>
    \/ (prune_loops # << >> /\ PruneLoopWrite(1)) /\ UNCHANGED <<envVars, lifeRest>>
    \/ (prune_loops # << >> /\ PruneLoopClose(1)) /\ UNCHANGED <<envVars, lifeRest>>
    \/ OnEventBegin(1) /\ UNCHANGED <<envVars, ioVars>>
    \/ AppendEventDone(1) /\ UNCHANGED <<envVars, ioVars>>
    \/ Evaluate(1) /\ UNCHANGED <<envVars, ioVars>>
    \/ OnEventReturn(1) /\ UNCHANGED <<envVars, ioVars>>
    \/ IngestReturn(1) /\ UNCHANGED <<envVars, ioVars>>

SpecPruneRace == InitPruneRace /\ [][NextPruneRace]_vars

(* Properties of prune_log under SpecPruneRace *)

IsPrefix(s, t) == Len(s) <= Len(t) /\ SubSeq(t, 1, Len(s)) = s

\* C19: once prune_log has read the log, whoever reads the log finds either
\* the lines prune_log read followed by the lines appended since, or the
\* lines prune_log keeps followed by the lines appended after the rewrite:
\* no state in between.
C19_PruneAtomic ==
    \A k \in 1..Len(prunes) :
        \/ IsPrefix(Get(prunes[k].before), LogLines)
        \/ IsPrefix(Get(prunes[k].after), LogLines)

----------------------------------------------------------------------------
(* cli.py: _tail_events, the task of `serve` that polls the log other      *)
(* processes write and ingests the events appended to it.  The offset pos  *)
(* is counted in lines.                                                    *)

tailRest ==
    <<dispatcher, delivered, prune_task, prune_loops, prunes, stopper, failed, loaded, dashVars>>

\* What the body of the loop over the new lines does with one line: "skip"
\* (continue, or an exception the body catches), "ingest", or "raise" when
\* an exception leaves the loop.
tail_line(line) ==
    IF line.kind = "blank" THEN "skip"
    ELSE IF line.kind = "malformed" THEN "skip"
    ELSE IF line.kind = "scalar" THEN "raise"
    ELSE IF "rule_id" \in DOMAIN line.data /\ "fingerprint" \in DOMAIN line.data THEN "skip"
    ELSE IF "type" \notin DOMAIN line.data THEN "skip"
    ELSE IF event_is_valid(line.data) THEN "ingest" ELSE "skip"

\* if size < pos: pos = 0
tail_offset(size, pos) == IF size < pos THEN 0 ELSE pos

\* The pc of the tailer with these lines left of what it read.
tail_next(pending) == IF pending = << >> THEN "sleeping" ELSE "lines"

TailRecord(did, line, size, pos, read_from) ==
    [did |-> did, line |-> line, size |-> size, pos |-> pos, read_from |-> read_from]

\* asyncio.create_task(_tail_events(engine, events_path)), and the task
\* waits for the file.
TailStart ==
    /\ running
    /\ tailer.pc = "off"
    /\ tailer' = [tailer EXCEPT !.pc = "waiting"]
    /\ UNCHANGED <<tailed, tailRest>>
    /\ UNCHANGED <<evalVars, envVars, busVars, engineVars>>

\* The file exists: pos = events_path.stat().st_size
TailFound ==
    /\ cpu = None
    /\ tailer.pc = "waiting"
    /\ ~IsNone(log)
    /\ tailer' = [tailer EXCEPT !.pc = "sleeping", !.pos = Len(Get(log))]
    /\ UNCHANGED <<tailed, tailRest>>
    /\ UNCHANGED <<evalVars, envVars, busVars, engineVars>>

\* One round of the loop up to the lines read: the file is missing (pos = 0),
\* has not changed, or its lines from pos on are read.
TailPoll ==
    /\ cpu = None
    /\ tailer.pc = "sleeping"
    /\ IF IsNone(log)
       THEN /\ tailer' = [tailer EXCEPT !.pos = 0]
            /\ UNCHANGED tailed
       ELSE LET size == Len(Get(log))
                from == tail_offset(size, tailer.pos)
            IN  IF size = from
                THEN /\ tailer' = [tailer EXCEPT !.pos = from]
                     /\ UNCHANGED tailed
                ELSE /\ tailer' = [pc |-> "lines", pos |-> size,
                                   pending |-> SubSeq(Get(log), from + 1, size)]
                     /\ tailed' = Append(tailed, TailRecord("poll", None, size, tailer.pos, from))
    /\ UNCHANGED tailRest
    /\ UNCHANGED <<evalVars, envVars, busVars, engineVars>>

\* The next line read is skipped, or an exception ends the task.
TailLine ==
    /\ cpu = None
    /\ tailer.pc = "lines"
    /\ tail_line(Head(tailer.pending)) # "ingest"
    /\ tailer' = [tailer EXCEPT
                     !.pc = IF tail_line(Head(tailer.pending)) = "raise" THEN "dead"
                            ELSE tail_next(Tail(tailer.pending)),
                     !.pending = Tail(@)]
    /\ tailed' = Append(tailed, TailRecord(tail_line(Head(tailer.pending)),
                                           Some(Head(tailer.pending)), 0, 0, 0))
    /\ UNCHANGED tailRest
    /\ UNCHANGED <<evalVars, envVars, busVars, engineVars>>

\* event = OpenAlertsEvent.model_validate(data); await engine.ingest(event),
\* in task 1 of the event loop.
TailIngest ==
    /\ tailer.pc = "lines"
    /\ tail_line(Head(tailer.pending)) = "ingest"
    /\ Ingest(1, model_validate_event(Head(tailer.pending).data))
    /\ tailer' = [tailer EXCEPT !.pc = "ingesting", !.pending = Tail(@)]
    /\ tailed' = Append(tailed, TailRecord("ingest", Some(Head(tailer.pending)), 0, 0, 0))
    /\ UNCHANGED tailRest
    /\ UNCHANGED envVars

\* engine.ingest has returned.
TailIngestReturn ==
    /\ cpu = None
    /\ tailer.pc = "ingesting"
    /\ tasks[1].pc = "idle"
    /\ tailer' = [tailer EXCEPT !.pc = tail_next(tailer.pending)]
    /\ UNCHANGED <<tailed, tailRest>>
    /\ UNCHANGED <<evalVars, envVars, busVars, engineVars>>

(* SpecTail: `serve` runs an engine that persists nothing and tails a log  *)
(* to which another process appends lines of every shape and which it      *)
(* empties or removes.                                                     *)

MaxTailLines == 2
MaxTailed == 3

TailLines ==
    { JsonLine(PlainEvent(CUSTOM, 0, None)),
      JsonLine(StuckAlert("a", 0)),
      MalformedLine, ScalarLine,
      [kind |-> "object", data |-> [ts |-> 0]],
      [kind |-> "object", data |-> [rule_id |-> AGENT_STUCK_RULE, fingerprint |-> <<"x">>,
                                    type |-> CUSTOM, ts |-> 0]] }

InitTail ==
    /\ now = 0
    /\ config = OpenAlertsConfig([r \in RuleIdSet |-> NoOverride], 900, 5, FALSE, FALSE)
    /\ state = EvaluatorState(0)
    /\ nProcessed = 0
    /\ fires = << >>
    /\ sets = << >>
    /\ lastTrace = << >>
    /\ resets = << >>
    /\ arrived = << >>
    /\ nAgents = 0 /\ nReuse = 0 /\ nWarm = 0 /\ nIngest = 0
    /\ InitEngine({None, Some(<<JsonLine(PlainEvent(CUSTOM, 0, None))>>)}, {NoWiring})

TailEngineStart ==
    /\ starts = << >>
    /\ Start
    /\ UNCHANGED <<envVars, startRest>>

\* Another process appends a line.
TailAppend ==
    /\ Len(tailed) < MaxTailed
    /\ LogLength < MaxTailLines
    /\ \E line \in TailLines : log' = append_event(log, line)
    /\ UNCHANGED <<evalVars, envVars, busVars, running, live_events, recent_alerts, stats,
                   wiring, dispatched, sent, notified, starts, epoch, ioVars>>

\* Another process empties the log (a prune that keeps nothing) or removes it.
TailShrink ==
    /\ Len(tailed) < MaxTailed
    /\ ~IsNone(log)
    /\ log' \in {None, Some(<< >>)}
    /\ log' # log
    /\ UNCHANGED <<evalVars, envVars, busVars, running, live_events, recent_alerts, stats,
                   wiring, dispatched, sent, notified, starts, epoch, ioVars>>

NextTail ==
    \/ TailEngineStart
    \/ TailAppend
    \/ TailShrink
    \/ TailStart
    \/ TailFound
    \/ TailPoll
    \/ TailLine
    \/ TailIngest
    \/ TailIngestReturn
    \/ OnEventBegin(1) /\ UNCHANGED <<envVars, ioVars>>
    \/ Evaluate(1) /\ UNCHANGED <<envVars, ioVars>>
    \/ OnEventReturn(1) /\ UNCHANGED <<envVars, ioVars>>
    \/ IngestReturn(1) /\ UNCHANGED <<envVars, ioVars>>

SpecTail == InitTail /\ [][NextTail]_vars

(* Properties of the tailer under SpecTail *)

\* C20: the tailer ingests no line with both a rule_id and a fingerprint key
\* and only lines with a type key; a round that finds the file smaller than
\* its offset reads it from the start; and no line and no missing file ends
\* the task.
C20_TailerSafe ==
    /\ \A k \in 1..Len(tailed) :
          /\ tailed[k].did = "ingest" =>
                /\ ~IsAlertShaped(Get(tailed[k].line))
                /\ "type" \in DOMAIN Get(tailed[k].line).data
          /\ (tailed[k].did = "poll" /\ tailed[k].size < tailed[k].pos) =>
                tailed[k].read_from = 0
    /\ tailer.pc # "dead"

----------------------------------------------------------------------------
(* SpecRules: model errors and agent steps reach the evaluator, fresh or   *)
(* with a timestamp more than a minute old, under the default thresholds   *)
(* and under overrides; the clock moves between them.                      *)

MaxRuleEvents == 2

RulesInstants == {10, 61, 899, 900}

RulesConfigs ==
    { OpenAlertsConfig([r \in RuleIdSet |->
                           CASE r = LLM_ERRORS -> RuleOverride(None, lt, None)
                             [] r = STEP_LIMIT_WARNING -> RuleOverride(None, st, None)
                             [] OTHER -> NoOverride],
                       900, 5, FALSE, TRUE) :
        lt \in {None, Some(2)}, st \in {None, Some(58)} }

\* step_number and max_steps of the agent-step events.
RulesSteps ==
    { <<Some(9), Some(10)>>, <<Some(7), Some(10)>>, <<Some(8), Some(10)>>,
      <<Some(29), Some(50)>>, <<None, Some(10)>>, <<Some(9), None>>, <<Some(0), Some(0)>> }

RulesEvents(t) ==
    { PlainEvent(LLM_ERROR, ts, None) : ts \in {t, t - 61} }
    \cup { OpenAlertsEvent(AGENT_STEP, t, None, None, sm[1], sm[2], None) : sm \in RulesSteps }

InitRules ==
    /\ now = 0
    /\ config \in RulesConfigs
    /\ state = EvaluatorState(0)
    /\ nProcessed = 0
    /\ fires = << >>
    /\ sets = << >>
    /\ lastTrace = << >>
    /\ resets = << >>
    /\ arrived = << >>
    /\ nAgents = 0 /\ nReuse = 0 /\ nWarm = 0 /\ nIngest = 0
    /\ InitEngine({None}, {NoWiring})

RulesProcess ==
    /\ nProcessed < MaxRuleEvents
    /\ \E e \in RulesEvents(now) : ProcessEvent(e)
    /\ UNCHANGED <<envVars, restVars, ioVars>>

RulesTick == (\E t \in RulesInstants : Tick(t)) /\ UNCHANGED <<envVars, restVars, ioVars>>

NextRules == RulesProcess \/ RulesTick

SpecRules == InitRules /\ [][NextRules]_vars

(* Properties of the rules under SpecRules *)

\* The decisions a process_event call took for rule_id: none when the rule
\* returned no alert.
DecisionsOf(trace, rule_id) ==
    {trace[k].outcome : k \in {j \in 1..Len(trace) : trace[j].rule_id = rule_id}}

\* C25: a process_event call makes llm-errors return an alert iff the event is
\* a model error and the model errors of the rule's window (the event is in
\* it) whose timestamp is at most 60 seconds old are at least the threshold
\* (override or 1); the alert is titled 'LLM API Errors Detected'.  Under
\* the defaults a fresh model error that is the first to arrive fires, and a
\* match less than 900 seconds after the last fire is suppressed by cooldown.
C25_LLMErrorsRule ==
    [][nProcessed' = nProcessed + 1 =>
        LET event == arrived'[Len(arrived')]
            window == state'.windows[LLM_ERRORS]
            errors == SelectSeq(window, LAMBDA e : e.type = LLM_ERROR /\ now - e.ts <= 60)
            threshold == IF IsNone(config.rules[LLM_ERRORS].threshold)
                         THEN 1 ELSE Get(config.rules[LLM_ERRORS].threshold)
            decisions == DecisionsOf(lastTrace', LLM_ERRORS)
            earlier == {i \in 1..Len(arrived) : arrived[i].type = LLM_ERROR}
            last_fires == {i \in 1..Len(fires) : fires[i].rule_id = LLM_ERRORS}
        IN  /\ window[Len(window)] = event
            /\ (decisions # {}) <=> (event.type = LLM_ERROR /\ Len(errors) >= threshold)
            /\ decisions # {} =>
                  Get(LLMErrorsRule(event, state'.windows, config, now)).title
                     = "LLM API Errors Detected"
            /\ (event.type = LLM_ERROR /\ event.ts = now /\ threshold = 1 /\ earlier = {})
                  => decisions = {"fired"}
            /\ (decisions # {} /\ \E i \in last_fires : now - fires[i].at < 900)
                  => decisions = {"cooldown"}
    ]_vars

\* Under the defaults the first model error fired and the second, 10
\* seconds later, matched and was suppressed by the cooldown.
C25_Witness ==
    /\ IsNone(config.rules[LLM_ERRORS].threshold)
    /\ nProcessed = 2
    /\ arrived[1].type = LLM_ERROR /\ arrived[2].type = LLM_ERROR
    /\ arrived[1].ts = 0 /\ arrived[2].ts = 10 /\ now = 10
    /\ Len(fires) = 1 /\ fires[1].rule_id = LLM_ERRORS /\ fires[1].at = 0
    /\ DecisionsOf(lastTrace, LLM_ERRORS) = {"cooldown"}

\* C26: a process_event call makes step-limit-warning return an alert for an
\* agent-step event with step_number and max_steps iff step_number /
\* max_steps, as a percentage, is at least the threshold (override or 80):
\* 9 of 10 matches, 7 of 10 does not; without one of the two fields the rule
\* returns nothing.
C26_StepLimitWarning ==
    [][(nProcessed' = nProcessed + 1 /\ arrived'[Len(arrived')].type = AGENT_STEP) =>
        LET event == arrived'[Len(arrived')]
            threshold_pct == IF IsNone(config.rules[STEP_LIMIT_WARNING].threshold)
                             THEN 80 ELSE Get(config.rules[STEP_LIMIT_WARNING].threshold)
            decisions == DecisionsOf(lastTrace', STEP_LIMIT_WARNING)
        IN  IF IsNone(event.step_number) \/ IsNone(event.max_steps)
            THEN decisions = {}
            ELSE Get(event.max_steps) > 0 =>
                    ((decisions # {}) <=>
                        Get(event.step_number) * 100 >= threshold_pct * Get(event.max_steps))
    ]_vars

----------------------------------------------------------------------------
(* SpecRate: a run of tool events.  The first RateLead are calls that       *)
(* succeed; after them calls and errors mix.  The last error may come from  *)
(* a second tool, and before the last event the clock may leave the 60 s or *)
(* the 300 s window.                                                        *)

MaxRateEvents == 21
RateLead == 10

RateInstants == {61, 301}

RateConfigs ==
    { OpenAlertsConfig(RulesWith(HIGH_ERROR_RATE, RuleOverride(None, th, None)),
                       900, n, FALSE, TRUE) :
        th \in {None, Some(55)}, n \in {2, 5} }

ToolEvent(type, tool, t) == OpenAlertsEvent(type, t, None, Some(tool), None, None, None)

RateLate == nProcessed >= MaxRateEvents - 1

InitRate ==
    /\ now = 0
    /\ config \in RateConfigs
    /\ state = EvaluatorState(0)
    /\ nProcessed = 0
    /\ fires = << >>
    /\ sets = << >>
    /\ lastTrace = << >>
    /\ resets = << >>
    /\ arrived = << >>
    /\ nAgents = 0 /\ nReuse = 0 /\ nWarm = 0 /\ nIngest = 0
    /\ InitEngine({None}, {NoWiring})

RateCall ==
    /\ nProcessed < MaxRateEvents
    /\ ProcessEvent(ToolEvent(TOOL_CALL, "a", now))
    /\ UNCHANGED <<envVars, restVars, ioVars>>

RateError ==
    /\ nProcessed < MaxRateEvents
    /\ nProcessed >= RateLead
    /\ \E tool \in {"a"} \cup (IF RateLate THEN {"b"} ELSE {}) :
          ProcessEvent(ToolEvent(TOOL_ERROR, tool, now))
    /\ UNCHANGED <<envVars, restVars, ioVars>>

RateTick ==
    /\ RateLate
    /\ \E t \in RateInstants : Tick(t)
    /\ UNCHANGED <<envVars, restVars, ioVars>>

NextRate == RateCall \/ RateError \/ RateTick

SpecRate == InitRate /\ [][NextRate]_vars

(* Properties of the rules under SpecRate *)

\* C27: a process_event call makes high-error-rate return an alert iff the
\* event is a tool call or a tool error, the rule's window holds at least 20
\* tool events whose timestamp is at most 300 seconds old, and the tool
\* errors among the 20 most recent of them are strictly more than the
\* threshold (override or 50) percent of 20: 11 of 20 matches under 50, 10
\* of 20 does not.
C27_HighErrorRate ==
    [][nProcessed' = nProcessed + 1 =>
        LET event == arrived'[Len(arrived')]
            tool_events ==
                SelectSeq(state'.windows[HIGH_ERROR_RATE],
                          LAMBDA e : e.type \in {TOOL_CALL, TOOL_ERROR} /\ now - e.ts <= 300)
            recent == Tail_n(tool_events, 20)
            n_errors == Len(SelectSeq(recent, LAMBDA e : e.type = TOOL_ERROR))
            threshold_pct == IF IsNone(config.rules[HIGH_ERROR_RATE].threshold)
                             THEN 50 ELSE Get(config.rules[HIGH_ERROR_RATE].threshold)
            decisions == DecisionsOf(lastTrace', HIGH_ERROR_RATE)
        IN  (decisions # {}) <=>
               /\ event.type \in {TOOL_CALL, TOOL_ERROR}
               /\ Len(tool_events) >= 20
               /\ n_errors * 100 > threshold_pct * 20
    ]_vars

----------------------------------------------------------------------------
(* Properties of the window filling under SpecWindow *)

\* C28: a process_event call appends the event to the window of every
\* registered rule, disabled or not and whatever the event type, so all the
\* windows hold the same sequence; the append comes before the evaluation:
\* an enabled llm-errors rule counts the model error being processed.
C28_WindowsFilledFirst ==
    [][nProcessed' = nProcessed + 1 =>
        LET event == arrived'[Len(arrived')]
        IN  /\ \A r \in RuleIdSet :
                  /\ state'.windows[r] # << >>
                  /\ state'.windows[r][Len(state'.windows[r])] = event
                  /\ Len(state'.windows[r]) = Min(Len(state.windows[r]) + 1, MAX_WINDOW_ENTRIES)
            /\ \A r1, r2 \in RuleIdSet : state'.windows[r1] = state'.windows[r2]
            /\ (event.type = LLM_ERROR /\ _is_rule_enabled(config, LLM_ERRORS))
                  => DecisionsOf(lastTrace', LLM_ERRORS) # {}
    ]_vars

\* llm-errors is disabled, and its window is full of the events that
\* arrived: custom events it would not match and a model error at the end.
C28_Witness ==
    /\ ~_is_rule_enabled(config, LLM_ERRORS)
    /\ Len(state.windows[LLM_ERRORS]) = MAX_WINDOW_ENTRIES
    /\ state.windows[LLM_ERRORS][1].type = CUSTOM
    /\ state.windows[LLM_ERRORS][MAX_WINDOW_ENTRIES].type = LLM_ERROR
    /\ state.windows[LLM_ERRORS][MAX_WINDOW_ENTRIES] = arrived[nProcessed]
    /\ state.windows[HIGH_ERROR_RATE] = state.windows[LLM_ERRORS]
    /\ fires = << >>

----------------------------------------------------------------------------
(* Properties of suppression under SpecEval *)

\* The hourly counter a process_event call starts from: 0 when the call
\* restarted the bucket.
CounterBase == IF state'.hour_start # state.hour_start THEN 0 ELSE state.alerts_this_hour

\* C29: a match that process_event suppresses changes no accounting: the
\* hourly counter grows by the alerts the call fired only, and for a match
\* suppressed by the hourly limit or by the cooldown the rule's fired count
\* and the cooldown entry of the fingerprint (absent, or the time of the last
\* fired alert) are what they were before the call.
C29_SuppressionFrame ==
    [][nProcessed' = nProcessed + 1 =>
        LET trace == lastTrace'
            fired == {k \in 1..Len(trace) : trace[k].outcome = "fired"}
            suppressed == {k \in 1..Len(trace) : trace[k].outcome \in {"hourly", "cooldown"}}
        IN  /\ state'.alerts_this_hour = CounterBase + Cardinality(fired)
            /\ \A k \in suppressed :
                  /\ state'.stats[trace[k].rule_id] = state.stats[trace[k].rule_id]
                  /\ DictGet(state'.cooldowns, trace[k].fingerprint)
                        = DictGet(state.cooldowns, trace[k].fingerprint)
                  /\ trace[k].outcome = "cooldown" =>
                        \E i \in 1..Len(fires) :
                            /\ fires[i].fingerprint = trace[k].fingerprint
                            /\ DictGet(state'.cooldowns, trace[k].fingerprint)
                                  = Some(fires[i].at)
    ]_vars

\* The hour's only slot is used; the last call matched a fingerprint that
\* never fired and was suppressed by the hourly limit: no cooldown entry, no
\* fired count, and the counter still at the limit.
C29_Witness ==
    /\ Len(lastTrace) = 1
    /\ lastTrace[1].outcome = "hourly"
    /\ lastTrace[1].fingerprint \notin DictKeys(state.cooldowns)
    /\ state.stats[lastTrace[1].rule_id] = 0
    /\ state.alerts_this_hour = config.max_alerts_per_hour
    /\ Len(fires) = config.max_alerts_per_hour

----------------------------------------------------------------------------
(* Properties of events that match several rules, under SpecRate *)

\* The place of a rule in ALL_RULES.
RegistrationIndex(rule_id) == CHOOSE i \in 1..Len(ALL_RULES) : ALL_RULES[i] = rule_id

\* C30: the matches of one process_event call are decided in rule
\* registration order and the alerts are returned in that order; each match
\* is suppressed by cooldown iff its own fingerprint fired less than the
\* cooldown (900 s) ago, whatever the other fingerprints did; each alert
\* fired takes one hourly slot, so once the slots are used the later matches
\* of the same event are suppressed by the hourly limit.
C30_SeveralRulesPerEvent ==
    [][nProcessed' = nProcessed + 1 =>
        LET trace == lastTrace'
            fired == SelectSeq(trace, LAMBDA d : d.outcome = "fired")
            cooling(fp) ==
                \E i \in 1..Len(state.cooldowns) :
                    state.cooldowns[i].key = fp /\ now - state.cooldowns[i].value < 900
            fired_before(k) == Cardinality({j \in 1..(k - 1) : trace[j].outcome = "fired"})
        IN  /\ \A j, k \in 1..Len(trace) :
                  j < k => RegistrationIndex(trace[j].rule_id) < RegistrationIndex(trace[k].rule_id)
            /\ Len(fires') = Len(fires) + Len(fired)
            /\ \A k \in 1..Len(fired) :
                  /\ fires'[Len(fires) + k].rule_id = fired[k].rule_id
                  /\ fires'[Len(fires) + k].fingerprint = fired[k].fingerprint
            /\ \A k \in 1..Len(trace) :
                  trace[k].outcome =
                      IF cooling(trace[k].fingerprint) THEN "cooldown"
                      ELSE IF CounterBase + fired_before(k) >= config.max_alerts_per_hour
                           THEN "hourly"
                           ELSE "fired"
    ]_vars

\* A tool error matched tool-errors and high-error-rate with one hourly slot
\* left: tool-errors, registered first, fired and high-error-rate was
\* suppressed by the hourly limit.
C30_Witness ==
    /\ Len(lastTrace) = 2
    /\ lastTrace[1].rule_id = TOOL_ERRORS /\ lastTrace[1].outcome = "fired"
    /\ lastTrace[2].rule_id = HIGH_ERROR_RATE /\ lastTrace[2].outcome = "hourly"
    /\ arrived[nProcessed].type = TOOL_ERROR
    /\ state.alerts_this_hour = config.max_alerts_per_hour
    /\ fires[Len(fires)].rule_id = TOOL_ERRORS

----------------------------------------------------------------------------
(* core/engine.py: get_state_snapshot, the rows of "rules" and the list    *)
(* "recent_alerts".                                                        *)

SetMax(S) == CHOOSE x \in S : \A y \in S : y <= x

\* rule_last_fired.get(rule_id): the largest ts of the rule's alerts among recent.
rule_last_fired(recent, rule_id) ==
    LET ts == {recent[k].ts : k \in {j \in 1..Len(recent) : recent[j].rule_id = rule_id}}
    IN  IF ts = {} THEN None ELSE Some(SetMax(ts))

get_state_snapshot(recent, rules, t) ==
    [rules |->
        [i \in 1..Len(rules) |->
            LET last == rule_last_fired(recent, rules[i])
            IN  [id |-> rules[i],
                 status |-> IF ~IsNone(last) /\ (t - Get(last)) < 900 THEN "fired" ELSE "ok",
                 last_fired |-> last]],
     recent_alerts |->
        [k \in 1..Len(recent) |->
            [rule_id |-> recent[k].rule_id, severity |-> recent[k].severity,
             title |-> recent[k].title, ts |-> recent[k].ts]]]

(* SpecSnapshot: an engine that allows a burst of alerts in one hour sees a *)
(* model error, or not, and then one agent after the other getting stuck;   *)
(* the clock moves after the first event or at the end of the burst.        *)

MaxSnapIngest == 52

SnapInstants == {899, 900}

SnapEvents ==
    {StuckEvent(AgentName(nIngest + 1), now)}
    \cup (IF nIngest = 0 THEN {PlainEvent(LLM_ERROR, now, None)} ELSE {})

InitSnapshot ==
    /\ now = 0
    /\ config = OpenAlertsConfig([r \in RuleIdSet |-> NoOverride], 900, BurstLimit, TRUE, FALSE)
    /\ state = EvaluatorState(0)
    /\ nProcessed = 0
    /\ fires = << >>
    /\ sets = << >>
    /\ lastTrace = << >>
    /\ resets = << >>
    /\ arrived = << >>
    /\ nAgents = 0 /\ nReuse = 0 /\ nWarm = 0 /\ nIngest = 0
    /\ InitEngine({None}, {NoWiring})

\* No coroutine is between its first and its last step.
Quiescent == cpu = None /\ \A t \in Tasks : tasks[t].pc = "idle"

SnapStart ==
    /\ ~running
    /\ Start
    /\ UNCHANGED <<envVars, startRest>>

SnapIngest ==
    /\ running
    /\ nIngest < MaxSnapIngest
    /\ \E e \in SnapEvents : Ingest(1, e)
    /\ nIngest' = nIngest + 1
    /\ UNCHANGED <<nAgents, nReuse, nWarm, ioVars>>

SnapTick ==
    /\ Quiescent
    /\ nIngest <= 1 \/ nIngest >= MaxSnapIngest - 1
    /\ \E t \in SnapInstants : Tick(t)
    /\ UNCHANGED <<envVars, restVars, ioVars>>

NextSnapshot ==
    \/ SnapStart
    \/ SnapIngest
    \/ SnapTick
    \/ OnEventBegin(1) /\ UNCHANGED <<envVars, ioVars>>
    \/ Evaluate(1) /\ UNCHANGED <<envVars, ioVars>>
    \/ HandleAlert(1) /\ UNCHANGED <<envVars, ioVars>>
    \/ NotifyAlertListeners(1) /\ UNCHANGED <<envVars, ioVars>>
    \/ OnEventReturn(1) /\ UNCHANGED <<envVars, ioVars>>
    \/ IngestReturn(1) /\ UNCHANGED <<envVars, ioVars>>

SpecSnapshot == InitSnapshot /\ [][NextSnapshot]_vars

(* Properties of the snapshot under SpecSnapshot *)

\* C24: between ingests, the snapshot has one row per registered rule whose
\* status is "fired" iff an alert of the rule fired less than 900 seconds
\* ago, else "ok", and whose last_fired is the time of the rule's most recent
\* alert (None when it has none), however many alerts of other rules fired
\* after it.
C24_RuleStatus ==
    Quiescent =>
        \A i \in 1..Len(ALL_RULES) :
            LET row == get_state_snapshot(recent_alerts, ALL_RULES, now).rules[i]
                times == {fires[k].at :
                            k \in {j \in 1..Len(fires) : fires[j].rule_id = ALL_RULES[i]}}
            IN  /\ row.id = ALL_RULES[i]
                /\ row.status = IF \E f \in times : now - f < 900 THEN "fired" ELSE "ok"
                /\ row.last_fired = IF times = {} THEN None ELSE Some(SetMax(times))

----------------------------------------------------------------------------
(* dashboard/server.py.  A connection that asked for /openalerts/events is *)
(* served by _handle_sse, which waits in drain() after each write and then *)
(* in its keep-alive loop.  What a writer has been given is kept in out, a *)
(* sequence of messages [kind, data]; a connection is lost when the        *)
(* transport has seen the peer go away, after which drain() raises.        *)

HeaderMsg == [kind |-> "header", data |-> << >>]
HistoryMsg(events) == [kind |-> "history", data |-> events]
AlertHistoryMsg(alerts) == [kind |-> "alert_history", data |-> alerts]
OpenAlertsMsg(event) == [kind |-> "openalerts", data |-> <<event>>]
\* AlertEvent.detail of an agent-stuck alert: f"Agent '{event.agent_name or
\* 'unknown'}' appears stuck (repeating actions)."; the text of the other
\* rules' details is kept as the name of the agent too.
alert_detail(alert) ==
    LET event == alert.events[Len(alert.events)]
    IN  IF IsNone(event.agent_name) THEN "unknown" ELSE Get(event.agent_name)

AlertMsg(alert) ==
    [kind |-> "alert",
     data |-> <<[rule_id |-> alert.rule_id, severity |-> alert.severity,
                 title |-> alert.title, detail |-> alert_detail(alert), ts |-> alert.ts]>>]
HeartbeatMsg(t) == [kind |-> "heartbeat", data |-> <<t>>]

\* list(self._live_events)[-limit:]
get_recent_live_events(live, limit) == Tail_n(live, limit)

\* await writer.drain() raises ConnectionResetError.
drain_raises(w) == w.lost \/ w.closed

\* A handler that registers its writer as soon as the header is written.
sse_registered_Early(pc) == pc \in {"header", "history", "alert_history", "live"}

\* self._sse_clients.add(writer) is reached when the handler enters its loop.
sse_registered(pc) == pc = "live"

\* The clients once the handler of c has moved to pc.
clients_after(clients, c, pc) == IF sse_registered(pc) THEN clients \cup {c} ELSE clients

\* _handle_sse from "Send alert history replay" to its next wait.
replay_alerts(w, recent, t) ==
    LET snapshot == get_state_snapshot(recent, ALL_RULES, t)
    IN  IF snapshot.recent_alerts # << >>
        THEN [w EXCEPT !.out = Append(@, AlertHistoryMsg(snapshot.recent_alerts)),
                       !.pc = "alert_history"]
        ELSE [w EXCEPT !.pc = "live"]

\* _handle_sse from "Send event history replay" to its next wait.
replay_history(w, live, recent, t) ==
    LET history == get_recent_live_events(live, 200)
    IN  IF history # << >>
        THEN [w EXCEPT !.out = Append(@, HistoryMsg(history)), !.pc = "history"]
        ELSE replay_alerts(w, recent, t)

\* The handler of c goes on as w.
SseStep(c, w) ==
    /\ writers' = [writers EXCEPT ![c] = w]
    /\ sse_clients' = clients_after(sse_clients, c, w.pc)
    /\ UNCHANGED <<server, pushes, pushed, accepted>>

\* GET /openalerts/events arrives: the header is written.
SseOpen(c) ==
    /\ cpu = None
    /\ server.started
    /\ writers[c].pc = "none"
    /\ SseStep(c, [writers[c] EXCEPT !.out = <<HeaderMsg>>, !.pc = "header"])

\* The header is drained: the history, the alert history, the registration.
SseHistory(c) ==
    /\ cpu = None
    /\ writers[c].pc = "header" /\ ~drain_raises(writers[c])
    /\ SseStep(c, replay_history(writers[c], live_events, recent_alerts, now))

SseAlertHistory(c) ==
    /\ cpu = None
    /\ writers[c].pc = "history" /\ ~drain_raises(writers[c])
    /\ SseStep(c, replay_alerts(writers[c], recent_alerts, now))

SseRegister(c) ==
    /\ cpu = None
    /\ writers[c].pc = "alert_history" /\ ~drain_raises(writers[c])
    /\ SseStep(c, [writers[c] EXCEPT !.pc = "live"])

\* drain() raises before the loop: the exception leaves _handle_sse, and
\* _handle_connection closes the writer.
SseAbort(c) ==
    /\ cpu = None
    /\ writers[c].pc \in {"header", "history", "alert_history"} /\ drain_raises(writers[c])
    /\ writers' = [writers EXCEPT ![c].pc = "done", ![c].closed = TRUE]
    /\ UNCHANGED <<server, sse_clients, pushes, pushed, accepted>>

\* The keep-alive loop finds the writer closing: the writer is discarded.
SseLoopExit(c) ==
    /\ cpu = None
    /\ writers[c].pc = "live" /\ drain_raises(writers[c])
    /\ writers' = [writers EXCEPT ![c].pc = "done", ![c].closed = TRUE]
    /\ sse_clients' = sse_clients \ {c}
    /\ UNCHANGED <<server, pushes, pushed, accepted>>

\* The peer of c goes away.
SsePeerLost(c) ==
    /\ cpu = None
    /\ writers[c].pc \notin {"none", "done"} /\ ~writers[c].lost
    /\ writers' = [writers EXCEPT ![c].lost = TRUE]
    /\ UNCHANGED <<server, sse_clients, pushes, pushed, accepted>>

(* _broadcast_sse and the body of _heartbeat_loop: the same loop over a     *)
(* copy of _sse_clients, then the removal of the dead writers.              *)

\* A loop that a failed write ends: the exception leaves it.
push_after_write_Abort(push, c, broke) ==
    IF broke
    THEN [push EXCEPT !.todo = {}, !.dead = @ \cup {c}]
    ELSE [push EXCEPT !.todo = @ \ {c}]

\* try: writer.write(msg); await writer.drain() / except: dead.append(writer)
push_after_write(push, c, broke) ==
    [push EXCEPT !.todo = @ \ {c}, !.dead = IF broke THEN @ \cup {c} ELSE @]

\* for writer in list(self._sse_clients) starts.
StartPush(p, msg) ==
    pushes' = [pushes EXCEPT ![p] = [active |-> TRUE, msg |-> Some(msg),
                                     snapshot |-> sse_clients, todo |-> sse_clients,
                                     dead |-> {}]]

\* One turn of the loop, for any writer of the copy not yet served.
PushWrite(p) ==
    /\ pushes[p].active
    /\ \E c \in pushes[p].todo :
          /\ pushes' = [pushes EXCEPT ![p] = push_after_write(@, c, drain_raises(writers[c]))]
          /\ writers' = IF drain_raises(writers[c]) THEN writers
                        ELSE [writers EXCEPT ![c].out = Append(@, Get(pushes[p].msg))]
    /\ UNCHANGED <<server, sse_clients, pushed, accepted>>

\* for w in dead: self._sse_clients.discard(w); w.close()
PushEnd(p) ==
    /\ pushes[p].active /\ pushes[p].todo = {}
    /\ sse_clients' = sse_clients \ pushes[p].dead
    /\ writers' = [c \in Conns |->
                     IF c \in pushes[p].dead THEN [writers[c] EXCEPT !.closed = TRUE]
                     ELSE writers[c]]
    /\ pushed' = Append(pushed, [by |-> p, msg |-> Get(pushes[p].msg),
                                 snapshot |-> pushes[p].snapshot, dead |-> pushes[p].dead,
                                 before |-> sse_clients, after |-> sse_clients \ pushes[p].dead])
    /\ pushes' = [pushes EXCEPT ![p] = NoPush]
    /\ UNCHANGED <<server, accepted>>

\* DashboardServer.start(): the bus listener, the alert listener, the heartbeat task.
DashboardStart ==
    /\ ~server.started
    /\ Subscribe(DASHBOARD)
    /\ wiring' = [wiring EXCEPT !.alert_listeners = @ + 1]
    /\ server' = [server EXCEPT !.started = TRUE]
    /\ UNCHANGED <<sse_clients, writers, pushes, pushed, accepted>>
    /\ UNCHANGED <<running, log, live_events, recent_alerts, stats, dispatched, sent, notified,
                   starts, epoch>>

\* emit calls DashboardServer._on_event: without clients it returns at once.
DashboardOnEvent(t) ==
    /\ CanRun(t)
    /\ tasks[t].pc = "emit" /\ ~tasks[t].raised
    /\ DASHBOARD \in emit_remaining(tasks[t], listeners)
    /\ IF sse_clients = {}
       THEN /\ Goto(t, emit_after_call(tasks[t], DASHBOARD, "ok"), "emit")
            /\ UNCHANGED pushes
       ELSE /\ Goto(t, tasks[t], "push_event")
            /\ StartPush(t, OpenAlertsMsg(Get(tasks[t].event)))
    /\ UNCHANGED <<server, sse_clients, writers, pushed, accepted>>
    /\ UNCHANGED engineVars

\* _notify_alert_listeners calls DashboardServer._on_alert, the only listener.
DashboardOnAlert(t) ==
    /\ CanRun(t)
    /\ tasks[t].pc = "notify"
    /\ wiring.alert_listeners = 1 /\ sse_clients # {}
    /\ Goto(t, tasks[t], "push_alert")
    /\ StartPush(t, AlertMsg(Head(tasks[t].alerts)))
    /\ UNCHANGED <<server, sse_clients, writers, pushed, accepted>>
    /\ UNCHANGED engineVars

\* _notify_alert_listeners when no push is to be made.
DashboardNoPush(t) ==
    /\ wiring.alert_listeners = 0 \/ sse_clients = {}
    /\ NotifyAlertListeners(t)

\* A turn of the loop of _broadcast_sse in task t; drain() may wait.
BroadcastWrite(t) ==
    /\ CanRun(t)
    /\ tasks[t].pc \in {"push_event", "push_alert"}
    /\ PushWrite(t)
    /\ cpu' = None
    /\ UNCHANGED <<listeners, handles, tasks, returned, lastBusOp>>
    /\ UNCHANGED engineVars

\* _broadcast_sse returns to emit or to _notify_alert_listeners.
BroadcastEnd(t) ==
    /\ CanRun(t)
    /\ tasks[t].pc \in {"push_event", "push_alert"}
    /\ PushEnd(t)
    /\ IF tasks[t].pc = "push_event"
       THEN /\ Goto(t, emit_after_call(tasks[t], DASHBOARD, "ok"), "emit")
            /\ UNCHANGED notified
       ELSE /\ Goto(t, [tasks[t] EXCEPT !.alerts = Tail(@)], "alerts")
            /\ notified' = notified \o Notifications(<<Head(tasks[t].alerts)>>)
    /\ UNCHANGED <<running, log, live_events, recent_alerts, stats, wiring, dispatched, sent,
                   starts, epoch>>

\* The sleep of _heartbeat_loop is over: without clients it sleeps again.
\* The heartbeat task runs on the event loop as task 0.
HeartbeatWake ==
    /\ cpu = None
    /\ server.started /\ ~pushes[0].active
    /\ server' = [server EXCEPT !.beats = @ + 1]
    /\ IF sse_clients = {}
       THEN UNCHANGED <<pushes, cpu>>
       ELSE StartPush(0, HeartbeatMsg(now)) /\ cpu' = Some(0)
    /\ UNCHANGED <<sse_clients, writers, pushed, accepted>>
    /\ UNCHANGED <<listeners, handles, tasks, returned, lastBusOp>>

\* A turn of the loop of the heartbeat; drain() may wait.
HeartbeatWrite ==
    /\ CanRun(0)
    /\ PushWrite(0)
    /\ cpu' = None
    /\ UNCHANGED <<listeners, handles, tasks, returned, lastBusOp>>

\* The dead writers of the round are removed and the task sleeps again.
HeartbeatEnd ==
    /\ CanRun(0)
    /\ PushEnd(0)
    /\ cpu' = None
    /\ UNCHANGED <<listeners, handles, tasks, returned, lastBusOp>>

(* SpecDashboard: an engine and a dashboard server are started in either   *)
(* order, two connections ask for the event stream and one may lose its    *)
(* peer at any point, events of stuck agents are ingested one call at a    *)
(* time once both are running, and the heartbeat task wakes up.            *)

MaxDashIngest == 2
MaxBeats == 1
MaxLost == 1

\* The ioVars the dashboard leaves alone.
dashRest ==
    <<dispatcher, delivered, prune_task, prune_loops, prunes, stopper, failed, tailer, tailed,
      loaded>>

InitDashboardSpec ==
    /\ now = 0
    /\ config = OpenAlertsConfig([r \in RuleIdSet |-> NoOverride], 900, 5, TRUE, FALSE)
    /\ state = EvaluatorState(0)
    /\ nProcessed = 0
    /\ fires = << >>
    /\ sets = << >>
    /\ lastTrace = << >>
    /\ resets = << >>
    /\ arrived = << >>
    /\ nAgents = 0 /\ nReuse = 0 /\ nWarm = 0 /\ nIngest = 0
    /\ InitEngine({None}, {NoWiring})

\* The record of an ingest call in progress, made with both running: the
\* registered clients and the connections being served when it was made.
Accepted(event) ==
    [event |-> event, clients |-> sse_clients, alerts |-> << >>, open |-> TRUE,
     conns |-> {c \in Conns : writers[c].pc \notin {"none", "done"}}]

\* The last ingest call is one accepted and still in progress.
InAccepted == accepted # << >> /\ accepted[Len(accepted)].open

\* The connections whose peer has gone away.
Lost == {c \in Conns : writers[c].lost}

DashEngineStart ==
    /\ ~running /\ stopper.pc = "idle"
    /\ Start
    /\ UNCHANGED <<envVars, startRest>>

DashPeerLost ==
    /\ Cardinality(Lost) < MaxLost
    /\ \E c \in Conns : SsePeerLost(c)
    /\ UNCHANGED <<evalVars, envVars, restVars, dashRest>>

DashServerStart ==
    /\ DashboardStart
    /\ UNCHANGED <<evalVars, envVars, dashRest>>

\* An ingest call made while the engine and the server are running.
DashIngest ==
    /\ nIngest < MaxDashIngest
    /\ running /\ server.started
    /\ \E e \in {StuckEvent(AgentName(nIngest + 1), now)} :
          /\ Ingest(1, e)
          /\ accepted' = Append(accepted, Accepted(e))
    /\ nIngest' = nIngest + 1
    /\ UNCHANGED <<nAgents, nReuse, nWarm, dashRest>>
    /\ UNCHANGED <<server, sse_clients, writers, pushes, pushed>>

DashEvaluate ==
    /\ Evaluate(1)
    /\ accepted' = IF InAccepted
                   THEN [accepted EXCEPT ![Len(accepted)].alerts = tasks'[1].alerts]
                   ELSE accepted
    /\ UNCHANGED <<envVars, dashRest>>
    /\ UNCHANGED <<server, sse_clients, writers, pushes, pushed>>

DashIngestReturn ==
    /\ IngestReturn(1)
    /\ accepted' = IF InAccepted
                   THEN [accepted EXCEPT ![Len(accepted)].open = FALSE]
                   ELSE accepted
    /\ UNCHANGED <<envVars, dashRest>>
    /\ UNCHANGED <<server, sse_clients, writers, pushes, pushed>>

\* The heartbeat task wakes up during or after the last ingest call.
DashHeartbeat ==
    /\ server.beats < MaxBeats
    /\ nIngest = MaxDashIngest
    /\ HeartbeatWake
    /\ UNCHANGED <<evalVars, envVars, engineVars, dashRest>>

NextDashboard ==
    \/ DashEngineStart
    \/ DashServerStart
    \/ DashIngest
    \/ DashEvaluate
    \/ DashIngestReturn
    \/ DashHeartbeat
    \/ HeartbeatWrite /\ UNCHANGED <<evalVars, envVars, engineVars, dashRest>>
    \/ HeartbeatEnd /\ UNCHANGED <<evalVars, envVars, engineVars, dashRest>>
    \/ DashPeerLost
    \/ \E c \in Conns : SseOpen(c) /\ UNCHANGED <<evalVars, envVars, restVars, dashRest>>
    \/ \E c \in Conns : SseHistory(c) /\ UNCHANGED <<evalVars, envVars, restVars, dashRest>>
    \/ \E c \in Conns : SseAlertHistory(c) /\ UNCHANGED <<evalVars, envVars, restVars, dashRest>>
    \/ \E c \in Conns : SseRegister(c) /\ UNCHANGED <<evalVars, envVars, restVars, dashRest>>
    \/ \E c \in Conns : SseAbort(c) /\ UNCHANGED <<evalVars, envVars, restVars, dashRest>>
    \/ \E c \in Conns : SseLoopExit(c) /\ UNCHANGED <<evalVars, envVars, restVars, dashRest>>
    \/ OnEventBegin(1) /\ UNCHANGED <<envVars, ioVars>>
    \/ HandleAlert(1) /\ UNCHANGED <<envVars, ioVars>>
    \/ DashboardNoPush(1) /\ UNCHANGED <<envVars, ioVars>>
    \/ OnEventReturn(1) /\ UNCHANGED <<envVars, ioVars>>
    \/ DashboardOnEvent(1) /\ UNCHANGED <<evalVars, envVars, dashRest>>
    \/ DashboardOnAlert(1) /\ UNCHANGED <<evalVars, envVars, dashRest>>
    \/ BroadcastWrite(1) /\ UNCHANGED <<evalVars, envVars, dashRest>>
    \/ BroadcastEnd(1) /\ UNCHANGED <<evalVars, envVars, dashRest>>

SpecDashboard == InitDashboardSpec /\ [][NextDashboard]_vars

(* SpecRestart: as SpecDashboard, without lost peers and heartbeats, and   *)
(* with an engine that is stopped and started again.                       *)

MaxRestartStarts == 2
MaxRestartStops == 1

RestartStart ==
    /\ Len(starts) < MaxRestartStarts
    /\ ~running /\ stopper.pc = "idle"
    /\ Start
    /\ UNCHANGED <<envVars, startRest>>

RestartStop ==
    /\ stopper.calls < MaxRestartStops
    /\ running /\ Quiescent
    /\ StopBegin
    /\ UNCHANGED <<envVars, lifeRest>>

NextRestart ==
    \/ RestartStart
    \/ RestartStop
    \/ StopResume /\ UNCHANGED <<envVars, lifeRest>>
    \/ \E i \in 1..Len(prune_loops) : PruneLoopRun(i) /\ UNCHANGED <<envVars, lifeRest>>
    \/ \E i \in 1..Len(prune_loops) : PruneLoopCancelled(i) /\ UNCHANGED <<envVars, lifeRest>>
    \/ DashServerStart
    \/ DashIngest
    \/ DashEvaluate
    \/ DashIngestReturn
    \/ \E c \in Conns : SseOpen(c) /\ UNCHANGED <<evalVars, envVars, restVars, dashRest>>
    \/ \E c \in Conns : SseHistory(c) /\ UNCHANGED <<evalVars, envVars, restVars, dashRest>>
    \/ \E c \in Conns : SseAlertHistory(c) /\ UNCHANGED <<evalVars, envVars, restVars, dashRest>>
    \/ \E c \in Conns : SseRegister(c) /\ UNCHANGED <<evalVars, envVars, restVars, dashRest>>
    \/ OnEventBegin(1) /\ UNCHANGED <<envVars, ioVars>>
    \/ HandleAlert(1) /\ UNCHANGED <<envVars, ioVars>>
    \/ DashboardNoPush(1) /\ UNCHANGED <<envVars, ioVars>>
    \/ OnEventReturn(1) /\ UNCHANGED <<envVars, ioVars>>
    \/ DashboardOnEvent(1) /\ UNCHANGED <<evalVars, envVars, dashRest>>
    \/ DashboardOnAlert(1) /\ UNCHANGED <<evalVars, envVars, dashRest>>
    \/ BroadcastWrite(1) /\ UNCHANGED <<evalVars, envVars, dashRest>>
    \/ BroadcastEnd(1) /\ UNCHANGED <<evalVars, envVars, dashRest>>

SpecRestart == InitDashboardSpec /\ [][NextRestart]_vars

(* Properties of the event stream under SpecDashboard *)

\* The place of a message in the stream of a connection.
StreamRank(kind) ==
    CASE kind = "header" -> 0
      [] kind = "history" -> 1
      [] kind = "alert_history" -> 2
      [] OTHER -> 3

\* The kinds of the messages written to connection c, in order.
KindsOf(c) == [i \in 1..Len(writers[c].out) |-> writers[c].out[i].kind]

\* How many messages of the kind were written to connection c.
CountKind(c, kind) == Cardinality({i \in 1..Len(writers[c].out) : writers[c].out[i].kind = kind})

\* The last 200 events of the live buffer as it was after k events.
HistoryAt(k) == get_recent_live_events(SubSeq(live_events, 1, k), 200)

\* C21: on every connection the messages written are in stream order: the
\* header, then at most one history message holding the last (at most 200)
\* events of the live buffer as it was when the message was written, then at
\* most one alert_history message holding the recent alerts, and only then
\* openalerts, alert and heartbeat messages; a connection is in the live-push
\* set only once its handler has passed the replay.
C21_ReplayBeforeLive ==
    \A c \in Conns :
       LET out == writers[c].out
       IN  /\ \A i, j \in 1..Len(out) :
                 i < j => StreamRank(out[i].kind) <= StreamRank(out[j].kind)
           /\ CountKind(c, "history") <= 1
           /\ CountKind(c, "alert_history") <= 1
           /\ \A i \in 1..Len(out) :
                 /\ out[i].kind = "history" =>
                       /\ out[i].data # << >> /\ Len(out[i].data) <= 200
                       /\ \E k \in 1..Len(live_events) : out[i].data = HistoryAt(k)
                 /\ out[i].kind = "alert_history" =>
                       /\ out[i].data # << >>
                       /\ \E k \in 1..Len(recent_alerts) :
                             out[i].data =
                                get_state_snapshot(SubSeq(recent_alerts, 1, k), ALL_RULES,
                                                   now).recent_alerts
                 /\ StreamRank(out[i].kind) = 3 => writers[c].pc \in {"live", "done"}
           /\ c \in sse_clients => writers[c].pc = "live"

\* A connection was given the history, the alert history and then a live
\* message of an event ingested later.
C21_Witness ==
    \E c \in Conns :
       /\ Len(writers[c].out) >= 4
       /\ SubSeq(KindsOf(c), 1, 4) = <<"header", "history", "alert_history", "openalerts">>
       /\ writers[c].out[4].data[1] \notin Range(writers[c].out[2].data)

(* Properties of the live push under SpecRestart *)

\* How many times the message was written to connection c.
CountMsg(c, msg) ==
    Cardinality({i \in 1..Len(writers[c].out) :
                    /\ writers[c].out[i].kind = msg.kind
                    /\ writers[c].out[i].data = msg.data})

\* The connection was registered when the call started and is still open.
StillOpen(call, c) == c \in call.clients /\ c \in sse_clients /\ ~drain_raises(writers[c])

\* C22: once an ingest call made while the engine and the dashboard server
\* are running has returned, every connection that was registered when the
\* call started and is still open was given exactly one openalerts message of
\* the event and exactly one alert message for each alert the event fired.
C22_LivePush ==
    \A i \in 1..Len(accepted) :
       ~accepted[i].open =>
          \A c \in Conns :
             StillOpen(accepted[i], c) =>
                /\ CountMsg(c, OpenAlertsMsg(accepted[i].event)) = 1
                /\ \A k \in 1..Len(accepted[i].alerts) :
                      CountMsg(c, AlertMsg(accepted[i].alerts[k])) = 1

(* Properties of a failing client under SpecDashboard *)

\* The round wrote its message to the writers of its copy that did not fail.
WrittenToOthers(round) == \A c \in round.snapshot \ round.dead : CountMsg(c, round.msg) >= 1

\* C23: in every finished round of _broadcast_sse or of the heartbeat, the
\* writers whose write failed are writers of the copied set whose peer was
\* lost; they are out of the live-push set and closed, the round removed no
\* other writer, every other writer of the copy was given the message, and
\* every emit returned without an exception, the dashboard's listener having
\* returned normally.
C23_FailedClientIsolated ==
    /\ \A i \in 1..Len(pushed) :
          /\ pushed[i].dead \subseteq pushed[i].snapshot
          /\ \A c \in pushed[i].dead :
                writers[c].lost /\ writers[c].closed /\ c \notin sse_clients
          /\ pushed[i].after = pushed[i].before \ pushed[i].dead
          /\ WrittenToOthers(pushed[i])
    /\ \A i \in 1..Len(returned) :
          /\ ~returned[i].raised
          /\ \A k \in 1..Len(returned[i].called) :
                returned[i].called[k] = DASHBOARD => returned[i].outcomes[k] = "ok"

\* A broadcast and a heartbeat round over two clients have each ended with one
\* of them failed and the other one written to, and the ingest call returned.
C23_Witness ==
    /\ \E i \in 1..Len(pushed) :
          /\ pushed[i].by = 1
          /\ Cardinality(pushed[i].snapshot) = 2 /\ Cardinality(pushed[i].dead) = 1
          /\ \E j \in 1..Len(pushed) :
                /\ pushed[j].by = 0
                /\ Cardinality(pushed[j].snapshot) = 2 /\ Cardinality(pushed[j].dead) = 1
    /\ \E i \in 1..Len(returned) : DASHBOARD \in Range(returned[i].called)

----------------------------------------------------------------------------
(* SpecDisabled: an evaluator whose configuration disables rules; events   *)
(* of stuck agents and model errors arrive around the cooldown boundary.   *)

MaxDisabledEvents == 3

DisabledInstants == {10, 900}

DisabledConfigs ==
    { OpenAlertsConfig([r \in RuleIdSet |->
                           CASE r = LLM_ERRORS -> RuleOverride(llm, None, None)
                             [] r = AGENT_STUCK_RULE -> RuleOverride(stuck, None, None)
                             [] OTHER -> NoOverride],
                       900, n, FALSE, TRUE) :
        llm \in {None, Some(FALSE), Some(TRUE)}, stuck \in {None, Some(FALSE)}, n \in {1, 5} }

\* An evaluator created at time 0 under one of the configurations.
InitEvaluator(configs) ==
    /\ now = 0
    /\ config \in configs
    /\ state = EvaluatorState(0)
    /\ nProcessed = 0
    /\ fires = << >>
    /\ sets = << >>
    /\ lastTrace = << >>
    /\ resets = << >>
    /\ arrived = << >>
    /\ nAgents = 0 /\ nReuse = 0 /\ nWarm = 0 /\ nIngest = 0
    /\ InitEngine({None}, {NoWiring})

InitDisabled == InitEvaluator(DisabledConfigs)

DisabledProcess ==
    /\ nProcessed < MaxDisabledEvents
    /\ \E e \in EvalEvents(now) : ProcessEvent(e)
    /\ UNCHANGED <<envVars, restVars, ioVars>>

DisabledTick == (\E t \in DisabledInstants : Tick(t)) /\ UNCHANGED <<envVars, restVars, ioVars>>

NextDisabled == DisabledProcess \/ DisabledTick

SpecDisabled == InitDisabled /\ [][NextDisabled]_vars

(* Properties of disabled rules under SpecDisabled *)

\* The rules whose override has enabled = False.
DisabledRules == {r \in RuleIdSet : config.rules[r].enabled = Some(FALSE)}

\* The list of rules without the rules of the set, in the same order.
RulesWithout(rules, S) == SelectSeq(rules, LAMBDA r : r \notin S)

\* C31: a process_event call under a configuration that disables rules
\* returns the alerts and leaves the cooldown map, the hourly counter, the
\* fired counts and the windows of the other rules as the same call with the
\* disabled rules taken out of the rule list would; no alert, cooldown write
\* or fired count is ever of a disabled rule.
C31_DisabledRuleSilent ==
    [][nProcessed' = nProcessed + 1 =>
        LET event == arrived'[Len(arrived')]
            absent == process_event(state, config, event,
                                    RulesWithout(ALL_RULES, DisabledRules), now)
        IN  /\ lastTrace' = absent.trace
            /\ fires' = fires \o FiredRecords(absent.fired, absent.state, now)
            /\ state'.cooldowns = absent.state.cooldowns
            /\ state'.alerts_this_hour = absent.state.alerts_this_hour
            /\ state'.hour_start = absent.state.hour_start
            /\ state'.stats = absent.state.stats
            /\ \A r \in RuleIdSet \ DisabledRules :
                  state'.windows[r] = absent.state.windows[r]
            /\ \A r \in DisabledRules :
                  /\ state'.stats[r] = 0
                  /\ \A i \in 1..Len(fires') : fires'[i].rule_id # r
                  /\ \A i \in 1..Len(sets') : sets'[i].rule_id # r
                  /\ \A i \in 1..Len(state'.cooldowns) :
                        state'.cooldowns[i].key[1] # r
    ]_vars

\* The stuck-agent rule is disabled; events of a stuck agent arrived, then a
\* model error fired the model-errors rule, and nothing else has fired.
C31_Witness ==
    /\ config.rules[AGENT_STUCK_RULE].enabled = Some(FALSE)
    /\ Len(arrived) >= 2
    /\ arrived[1].type = AGENT_STUCK
    /\ Len(fires) = 1 /\ fires[1].rule_id = LLM_ERRORS
    /\ state.stats[AGENT_STUCK_RULE] = 0
    /\ state.alerts_this_hour = 1

(* The order of the steps of one ingest call, under SpecPersist *)

\* The event records of the log.
LoggedEvents ==
    IF IsNone(log) THEN << >> ELSE DataOf(SelectSeq(Get(log), IsEventShaped))

\* The appends of the kind that have ended, by a write or by an exception.
Persisted(what) ==
    Len(FailedAppends(what)) + Len(IF what = "event" THEN LoggedEvents ELSE LoggedAlerts)

\* The alerts the calls so far have fired and wholly handled: those of the
\* call in progress that are still in its list are not.
Handled == Len(fires) - Len(tasks[1].alerts)

\* The engine's listener has been entered by the emit in progress.
Entered == tasks[1].pc \in {"append_event", "evaluate", "alerts", "dispatch", "append_alert",
                            "notify"}
               \/ (tasks[1].pc = "emit" /\ ENGINE \in Range(tasks[1].called))

\* How far the alert at the head of the list has come: in the buffer (1),
\* dispatched and sent (2), persisted (3); notified alerts leave the list.
AlertStage ==
    CASE tasks[1].pc = "dispatch" -> 1
      [] tasks[1].pc = "append_alert" -> 2
      [] tasks[1].pc = "notify" -> 3
      [] OTHER -> 0

AtLeast(stage) == IF AlertStage >= stage THEN 1 ELSE 0

\* The line of the event an alert record of the log was fired by is in the
\* log before it, unless the append of that line failed.
EventLineFirst ==
    IsNone(log) \/
    \A j \in 1..Len(Get(log)) :
       IsAlertShaped(Get(log)[j]) =>
          LET line == [kind |-> "object",
                       data |-> Get(log)[j].data.events[Len(Get(log)[j].data.events)]]
          IN  \/ \E i \in 1..(j - 1) : IsEventShaped(Get(log)[i]) /\ Get(log)[i] = line
              \/ \E k \in 1..Len(failed) : failed[k].what = "event" /\ failed[k].line = line

\* C32: at every point of an ingest call the steps done so far are a prefix
\* of: live buffer and counter, event append (when persisting), evaluation,
\* then per fired alert: recent-alerts buffer, dispatch with its sends
\* (unless quiet), alert append (when persisting), alert listeners.  When
\* the call has returned all of them are done for the event and each of its
\* alerts, and in the log the line of an event precedes its alerts' lines.
C32_IngestStepOrder ==
    LET entered == IF Entered THEN 1 ELSE 0
        evaluated == IF tasks[1].pc \in {"append_event", "evaluate"} THEN 0 ELSE entered
        appended == IF tasks[1].pc = "append_event" THEN 0 ELSE entered
    IN  /\ Len(live_events) = Len(returned) + entered
        /\ stats["events_processed"] = Len(live_events)
        /\ nProcessed = Len(returned) + evaluated
        /\ config.persist => Persisted("event") = Len(returned) + appended
        /\ Len(recent_alerts) = Handled + AtLeast(1)
        /\ ~config.quiet =>
              /\ Len(dispatched) = Handled + AtLeast(1)
              /\ Len(sent) = (Handled + AtLeast(2)) * wiring.channels
        /\ config.quiet => AlertStage # 1 /\ dispatched = << >> /\ sent = << >>
        /\ config.persist => Persisted("alert") = Handled + AtLeast(3)
        /\ ~config.persist => AlertStage # 2 /\ log = None
        /\ Len(notified) = Handled * wiring.alert_listeners
        /\ AlertStage >= 1 =>
              recent_alerts[Len(recent_alerts)] = Head(tasks[1].alerts)
        /\ Fingerprints(recent_alerts) =
              SubSeq(Fingerprints(fires), 1, Len(recent_alerts))
        /\ [i \in 1..Len(notified) |-> notified[i].alert.fingerprint] =
              SubSeq(Fingerprints(fires), 1, Len(notified))
        /\ tasks[1].pc = "idle" => tasks[1].alerts = << >>
        /\ EventLineFirst

\* A persisting engine that is not quiet has handled two ingest calls that
\* each fired an alert: four lines in the log, two sends, two notifications.
C32_Witness ==
    /\ tasks[1].pc = "idle"
    /\ ~config.quiet /\ config.persist
    /\ Len(returned) = 2 /\ Len(fires) = 2
    /\ failed = << >>
    /\ [i \in 1..Len(Get(log)) |-> IsAlertShaped(Get(log)[i])] = <<FALSE, TRUE, FALSE, TRUE>>
    /\ Len(sent) = 2 /\ Len(notified) = 2

----------------------------------------------------------------------------
(* core/engine.py: send_test_alert.  It neither tests _running nor quiet,  *)
(* and it does not call the alert listeners.                               *)

TestAlert(t) == AlertEvent("test", "info", "OpenAlerts Test Alert", "test-alert", t, << >>)

\* await engine.send_test_alert(), the sends of the dispatcher settled.
SendTestAlert ==
    /\ cpu = None
    /\ recent_alerts' = DequeAppend(recent_alerts, MAX_RECENT_ALERTS, TestAlert(now))
    /\ dispatched' = Append(dispatched, TestAlert(now))
    /\ sent' = sent \o Sends(<<TestAlert(now)>>)
    /\ UNCHANGED <<running, log, live_events, stats, wiring, notified, starts, epoch>>

(* SpecBuffers: an engine on a log that nearly fills both buffers is       *)
(* started, also a second time, events of newly stuck agents are ingested  *)
(* one call at a time and test alerts are sent.                            *)

BufferLogEvents == 499
BufferLogAlerts == 49
MaxBufStarts == 2
MaxBufIngest == 2
MaxTestAlerts == 1

\* The lines of an earlier run: events and alerts of agents not seen again.
BufferLog ==
    Some([i \in 1..(BufferLogEvents + BufferLogAlerts) |->
             IF i <= BufferLogEvents
             THEN JsonLine(PlainEvent(CUSTOM, 0, None))
             ELSE JsonLine(StuckAlert(AgentName(i), 0))])

InitBuffers ==
    /\ now = 0
    /\ config = OpenAlertsConfig([r \in RuleIdSet |-> NoOverride], 900, BurstLimit, TRUE, FALSE)
    /\ state = EvaluatorState(0)
    /\ nProcessed = 0
    /\ fires = << >>
    /\ sets = << >>
    /\ lastTrace = << >>
    /\ resets = << >>
    /\ arrived = << >>
    /\ nAgents = 0 /\ nReuse = 0 /\ nWarm = 0 /\ nIngest = 0
    /\ InitEngine({BufferLog}, {NoWiring})

BufStart ==
    /\ Len(starts) < MaxBufStarts
    /\ Start
    /\ UNCHANGED <<envVars, startRest>>

BufIngest ==
    /\ running
    /\ nIngest < MaxBufIngest
    /\ Ingest(1, StuckEvent(AgentName(nIngest), now))
    /\ nIngest' = nIngest + 1
    /\ UNCHANGED <<nAgents, nReuse, nWarm, ioVars>>

BufTestAlert ==
    /\ Len(dispatched) < MaxTestAlerts
    /\ SendTestAlert
    /\ UNCHANGED <<evalVars, envVars, busVars, ioVars>>

NextBuffers ==
    \/ BufStart
    \/ BufIngest
    \/ BufTestAlert
    \/ OnEventBegin(1) /\ UNCHANGED <<envVars, ioVars>>
    \/ Evaluate(1) /\ UNCHANGED <<envVars, ioVars>>
    \/ HandleAlert(1) /\ UNCHANGED <<envVars, ioVars>>
    \/ NotifyAlertListeners(1) /\ UNCHANGED <<envVars, ioVars>>
    \/ OnEventReturn(1) /\ UNCHANGED <<envVars, ioVars>>
    \/ IngestReturn(1) /\ UNCHANGED <<envVars, ioVars>>

SpecBuffers == InitBuffers /\ [][NextBuffers]_vars

(* Properties of the two buffers under SpecBuffers *)

\* The events and the alerts a step brings to the buffers: the history of
\* the log for start(), the event for _on_event, the alert for the loop over
\* the fired alerts and for send_test_alert().
ArrivingEvents ==
    IF starts' # starts THEN load_history(log).events
    ELSE IF stats' # stats THEN <<Get(tasks[1].event)>>
    ELSE << >>

ArrivingAlerts ==
    IF starts' # starts THEN load_history(log).alerts
    ELSE IF dispatched' # dispatched THEN <<TestAlert(now)>>
    ELSE IF tasks[1].pc = "alerts" /\ tasks'[1].pc = "notify" THEN <<Head(tasks[1].alerts)>>
    ELSE << >>

\* C33: every step leaves in the live buffer the last 500, and in the
\* recent-alerts buffer the last 50, of what the buffer held followed by what
\* the step brought, in that order: the buffers never exceed 500 and 50
\* entries and lose their oldest entries first.
C33_BuffersBounded ==
    [][/\ Len(live_events') <= _MAX_LIVE_EVENTS
       /\ Len(recent_alerts') <= MAX_RECENT_ALERTS
       /\ live_events' = Tail_n(live_events \o ArrivingEvents, _MAX_LIVE_EVENTS)
       /\ recent_alerts' = Tail_n(recent_alerts \o ArrivingAlerts, MAX_RECENT_ALERTS)
    ]_vars

\* Both buffers are full and have lost entries of the history: the live
\* buffer ends with an ingested event and starts with a line of the log, the
\* alert buffer holds the test alert and an alert fired by an ingest.
C33_Witness ==
    /\ Len(live_events) = _MAX_LIVE_EVENTS /\ Len(recent_alerts) = MAX_RECENT_ALERTS
    /\ Len(starts) = 2 /\ nProcessed = 2
    /\ live_events[1].type = CUSTOM
    /\ \E i \in 1..Len(live_events) : live_events[i].type = AGENT_STUCK
    /\ \E i \in 1..Len(recent_alerts) : recent_alerts[i].rule_id = "test"
    /\ \E i \in 1..Len(recent_alerts) : recent_alerts[i].events # << >>

----------------------------------------------------------------------------
(* SpecWarm: warm_from_history is called, also on a state that has fired   *)
(* alerts, on logs with a fingerprint recorded twice with a smaller later  *)
(* timestamp, with event, blank and unreadable lines, and with more        *)
(* fingerprints than the cooldown map holds.                               *)

MaxWarmEvents == 2
MaxWarmCalls == 2

WarmInstants == {900}

\* The log of a run in which agents a1 .. ak got stuck and a1 once more.
LongLog(k) ==
    Some([i \in 1..(k + 1) |->
             JsonLine(StuckAlert(AgentName(IF i > k THEN 1 ELSE i), i))])

WarmLogs ==
    { None,
      Some(<< >>),
      LongLog(MAX_COOLDOWN_ENTRIES + 1),
      Some(<<JsonLine(StuckAlert("x", 500)), JsonLine(StuckEvent("x", 700)), MalformedLine,
             BlankLine, JsonLine(StuckAlert(AgentName(2), 0)), JsonLine(StuckAlert("x", 100)),
             JsonLine(StuckEvent("y", 800))>>) }

WarmAgents == {"x", "y"}

WarmProcess ==
    /\ nProcessed < MaxWarmEvents
    /\ \E a \in WarmAgents : ProcessEvent(StuckEvent(a, now))
    /\ UNCHANGED <<envVars, restVars, ioVars>>

WarmTick == (\E t \in WarmInstants : Tick(t)) /\ UNCHANGED <<envVars, restVars, ioVars>>

WarmCall ==
    /\ nWarm < MaxWarmCalls
    /\ \E lg \in WarmLogs : WarmFromHistory(lg)
    /\ nWarm' = nWarm + 1
    /\ UNCHANGED <<nAgents, nReuse, nIngest, restVars, ioVars>>

NextWarm == WarmProcess \/ WarmTick \/ WarmCall

SpecWarm == InitCooldown /\ [][NextWarm]_vars

(* Properties of the warm-up under SpecWarm *)

\* The alert-shaped lines the call in this step read, as (key, value) in
\* log order.
Warmed == SubSeq(sets', Len(sets) + 1, Len(sets'))

\* The positions of s at which a key is written for the last time, ascending.
LastSets(s) ==
    SelectSeq([i \in 1..Len(s) |-> i],
              LAMBDA i : \A j \in (i + 1)..Len(s) : s[j].key # s[i].key)

\* The cooldown map after the writes s: every key with the value of its last
\* write, in the order of the last writes, the 50 most recent only.
MapAfter(s) ==
    LET idx == Tail_n(LastSets(s), MAX_COOLDOWN_ENTRIES)
    IN  [k \in 1..Len(idx) |-> [key |-> s[idx[k]].key, value |-> s[idx[k]].value]]

\* What warm_from_history must leave alone.
WarmFrame ==
    /\ state'.alerts_this_hour = state.alerts_this_hour
    /\ state'.hour_start = state.hour_start
    /\ state'.windows = state.windows
    /\ state'.stats = state.stats
    /\ Warmed = << >> => state' = state

----------------------------------------------------------------------------
(* SpecHour: events of ever new agents around the ends of the hourly       *)
(* buckets, also after the evaluator was idle for several hours.           *)

MaxHourEvents == 5

HourInstants == {3599, 3600, 7198, 7200, 10800, 10801, 10802}

HourConfigs ==
    { OpenAlertsConfig([r \in RuleIdSet |-> NoOverride], 900, n, FALSE, TRUE) : n \in {1, 2} }

InitHour == InitEvaluator(HourConfigs)

\* Every event is of an agent not seen before, so no cooldown refuses it.
HourProcess ==
    /\ nProcessed < MaxHourEvents
    /\ ProcessEvent(StuckEvent(AgentName(nProcessed + 1), now))
    /\ UNCHANGED <<envVars, restVars, ioVars>>

HourTick == (\E t \in HourInstants : Tick(t)) /\ UNCHANGED <<envVars, restVars, ioVars>>

NextHour == HourProcess \/ HourTick

SpecHour == InitHour /\ [][NextHour]_vars

(* Properties of the hourly limit under SpecHour *)

\* The alerts fired in the span of less than 3600 seconds that begins with
\* the alert fires[i].
FiredWithinHourOf(i) ==
    {j \in i..Len(fires) : fires[j].at - fires[i].at < 3600}

\* C35: in any span of less than 3600 seconds the evaluator fires at most
\* 2 * max_alerts_per_hour alerts. (A span with the most alerts can be taken
\* to begin at one of them.)
C35_TwiceLimitPerHour ==
    \A i \in 1..Len(fires) :
        Cardinality(FiredWithinHourOf(i)) <= 2 * config.max_alerts_per_hour

\* Two alerts fired at the end of one bucket, two more a second later in the
\* next one, and the fifth only 3601 seconds after the first.
C35_Witness ==
    /\ config.max_alerts_per_hour = 2
    /\ Len(fires) = 5
    /\ Cardinality(FiredWithinHourOf(1)) = 4
    /\ fires[1].hour_start # fires[3].hour_start
    /\ fires[5].at - fires[1].at = 3601

----------------------------------------------------------------------------
(* Properties of the delivery of events under SpecDashboard *)

\* How many times connection c was given the event: in a history message
\* or as an openalerts message.
Deliveries(c, event) ==
    LET out == writers[c].out
    IN  Cardinality({<<i, k>> \in (1..Len(out)) \X (1..200) :
                        /\ out[i].kind = "history"
                        /\ k <= Len(out[i].data)
                        /\ out[i].data[k] = event})
        + CountMsg(c, OpenAlertsMsg(event))

\* The handler of c has passed the replay and its connection is open.
Streaming(c) == writers[c].pc = "live" /\ ~drain_raises(writers[c])

\* C36: once an ingest call has returned, every connection that was being
\* served when the call was made, has passed its replay and is still open
\* was given the event exactly once, in its history message or as an
\* openalerts message.
C36_DeliveredOnce ==
    \A i \in 1..Len(accepted) :
       ~accepted[i].open =>
          \A c \in accepted[i].conns : Streaming(c) => Deliveries(c, accepted[i].event) = 1


(* Properties of the order of the live messages under SpecDashboard *)

\* The places of the message in the stream of connection c.
PlacesOf(c, msg) ==
    {i \in 1..Len(writers[c].out) :
        /\ writers[c].out[i].kind = msg.kind
        /\ writers[c].out[i].data = msg.data}

\* C37: on every connection that was registered when an ingest call was
\* made, the openalerts message of the event comes before the alert message
\* of every alert the event fired.
C37_EventBeforeAlert ==
    \A i \in 1..Len(accepted) :
       \A c \in accepted[i].clients :
          \A k \in 1..Len(accepted[i].alerts) :
             \A a \in PlacesOf(c, AlertMsg(accepted[i].alerts[k])) :
                \E e \in PlacesOf(c, OpenAlertsMsg(accepted[i].event)) : e < a

----------------------------------------------------------------------------
(* SpecStale: model errors and tool errors arrive fresh or late: the event *)
(* carries the time it was made, 60 or 61 seconds before it is processed,  *)
(* as a replayed line of the log does.                                     *)

MaxStaleEvents == 3

StaleInstants == {30, 61, 100}

StaleConfigs ==
    { OpenAlertsConfig([r \in RuleIdSet |->
                           IF r \in {LLM_ERRORS, TOOL_ERRORS}
                           THEN RuleOverride(None, th, None) ELSE NoOverride],
                       900, 5, FALSE, TRUE) :
        th \in {None, Some(1), Some(2)} }

StaleEvents(t) ==
    { PlainEvent(LLM_ERROR, ts, None) : ts \in {t, t - 60, t - 61} }
    \cup { ToolEvent(TOOL_ERROR, "search", ts) : ts \in {t, t - 60, t - 61} }

InitStale == InitEvaluator(StaleConfigs)

StaleProcess ==
    /\ nProcessed < MaxStaleEvents
    /\ \E e \in StaleEvents(now) : ProcessEvent(e)
    /\ UNCHANGED <<envVars, restVars, ioVars>>

StaleTick == (\E t \in StaleInstants : Tick(t)) /\ UNCHANGED <<envVars, restVars, ioVars>>

NextStale == StaleProcess \/ StaleTick

SpecStale == InitStale /\ [][NextStale]_vars

(* Properties of the windows under SpecStale *)

\* The rule that counts the errors of the type.
ErrorRuleOf(type) == IF type = LLM_ERROR THEN LLM_ERRORS ELSE TOOL_ERRORS

\* The entries of the rule's window of the type that are at most 60 seconds
\* behind the clock.
FreshErrors(windows, type, t) ==
    {i \in 1..Len(windows[ErrorRuleOf(type)]) :
        /\ windows[ErrorRuleOf(type)][i].type = type
        /\ t - windows[ErrorRuleOf(type)][i].ts <= 60}

\* C38: when a model error or a tool error is processed, its rule returns an
\* alert iff the errors of its window that are at most 60 seconds behind the
\* clock of the evaluation, whatever the timestamp of the processed event,
\* reach the threshold (override or 1); an event that is itself more than 60
\* seconds old is not among them, so with no fresher error in the window it
\* fires no alert.
C38_WindowByWallClock ==
    [][(nProcessed' = nProcessed + 1
          /\ arrived'[Len(arrived')].type \in {LLM_ERROR, TOOL_ERROR}) =>
        LET event == arrived'[Len(arrived')]
            rule_id == ErrorRuleOf(event.type)
            fresh == FreshErrors(state'.windows, event.type, now)
            threshold == IF IsNone(config.rules[rule_id].threshold)
                         THEN 1 ELSE Get(config.rules[rule_id].threshold)
            decisions == DecisionsOf(lastTrace', rule_id)
        IN  /\ (decisions # {}) <=> Cardinality(fresh) >= threshold
            /\ now - event.ts > 60 => Len(state'.windows[rule_id]) \notin fresh
            /\ (now - event.ts > 60 /\ fresh = {}) =>
                  /\ decisions = {}
                  /\ fires' = fires
    ]_vars

\* A tool error made at 0 was processed at 0 and fired; two more tool errors
\* made at 39 were processed at 100: the window holds three tool errors,
\* none of them fresh, and the last call returned no alert.
C38_Witness ==
    /\ nProcessed = 3 /\ now = 100
    /\ \A i \in 1..3 : arrived[i].type = TOOL_ERROR
    /\ arrived[1].ts = 0 /\ arrived[2].ts = 39 /\ arrived[3].ts = 39
    /\ Len(fires) = 1 /\ fires[1].at = 0 /\ fires[1].rule_id = TOOL_ERRORS
    /\ FreshErrors(state.windows, TOOL_ERROR, now) = {}
    /\ DecisionsOf(lastTrace, TOOL_ERRORS) = {}

----------------------------------------------------------------------------
(* SpecTailPrune: `serve` tails a log to which an agent's process appends  *)
(* events, each of another agent, and which that process prunes once the   *)
(* first lines are more than a week old.                                   *)

MaxTpLines == 3
MaxTpPrunes == 1

TpInstants == {700000}

\* The line the agent's process appends for its k-th event, made at t.
TpLine(k, t) == JsonLine(OpenAlertsEvent(CUSTOM, t, Some(AgentName(k)), None, None, None, None))

InitTailPrune ==
    /\ now = 0
    /\ config = OpenAlertsConfig([r \in RuleIdSet |-> NoOverride], 900, 5, FALSE, FALSE)
    /\ state = EvaluatorState(0)
    /\ nProcessed = 0
    /\ fires = << >>
    /\ sets = << >>
    /\ lastTrace = << >>
    /\ resets = << >>
    /\ arrived = << >>
    /\ nAgents = 0 /\ nReuse = 0 /\ nWarm = 0 /\ nIngest = 0
    /\ InitEngine({None, Some(<< >>)}, {NoWiring})

TpEngineStart ==
    /\ starts = << >>
    /\ Start
    /\ UNCHANGED <<envVars, startRest>>

\* The agent's process appends an event once the tail task has been created.
TpAppend ==
    /\ tailer.pc # "off"
    /\ nAgents < MaxTpLines
    /\ log' = append_event(log, TpLine(nAgents + 1, now))
    /\ nAgents' = nAgents + 1
    /\ UNCHANGED <<evalVars, nReuse, nWarm, nIngest, busVars, running, live_events,
                   recent_alerts, stats, wiring, dispatched, sent, notified, starts, epoch,
                   ioVars>>

\* The prune loop of the agent's process runs prune_log.
TpPrune ==
    /\ Len(prunes) < MaxTpPrunes
    /\ PruneLog(DEFAULT_MAX_LOG_SIZE_KB, DEFAULT_MAX_LOG_AGE_DAYS)
    /\ log' # log
    /\ UNCHANGED <<evalVars, envVars, busVars, running, live_events, recent_alerts, stats,
                   wiring, dispatched, sent, notified, starts, epoch>>
    /\ UNCHANGED <<dispatcher, delivered, prune_task, prune_loops, stopper, failed, tailer,
                   tailed, loaded, dashVars>>

TpTick == (\E t \in TpInstants : Tick(t)) /\ UNCHANGED <<envVars, restVars, ioVars>>

NextTailPrune ==
    \/ TpEngineStart
    \/ TpAppend
    \/ TpPrune
    \/ TpTick
    \/ TailStart
    \/ TailFound
    \/ TailPoll
    \/ TailIngest
    \/ TailIngestReturn
    \/ OnEventBegin(1) /\ UNCHANGED <<envVars, ioVars>>
    \/ Evaluate(1) /\ UNCHANGED <<envVars, ioVars>>
    \/ OnEventReturn(1) /\ UNCHANGED <<envVars, ioVars>>
    \/ IngestReturn(1) /\ UNCHANGED <<envVars, ioVars>>

SpecTailPrune == InitTailPrune /\ [][NextTailPrune]_vars

(* Properties of the tailer under SpecTailPrune *)

\* How many times the tailer has ingested the k-th appended event.
TimesIngested(k) ==
    Cardinality({i \in 1..Len(tailed) :
                    /\ tailed[i].did = "ingest"
                    /\ Get(tailed[i].line).data.agent_name = Some(AgentName(k))})

\* The tailer has read the log up to its end and ingested what it read: its
\* next round would find the size equal to its offset.
TailCaughtUp ==
    /\ tailer.pc = "sleeping" /\ Quiescent
    /\ ~IsNone(log) /\ tailer.pos = Len(Get(log))

\* C39: no event appended after the tail task was created is ingested twice,
\* and whenever the tailer has caught up with the log each of them has been
\* ingested exactly once.
C39_TailedExactlyOnce ==
    \A k \in 1..nAgents :
       /\ TimesIngested(k) <= 1
       /\ TailCaughtUp => TimesIngested(k) = 1

----------------------------------------------------------------------------
(* SpecAccount: a stuck agent, model errors and agent steps, one of which  *)
(* makes its rule raise, under hourly limits from -1 to 2, across the      *)
(* cooldown and the end of the hourly bucket.                              *)

MaxAccountEvents == 4

AccountInstants == {900, 3600}

AccountConfigs ==
    { OpenAlertsConfig([r \in RuleIdSet |-> NoOverride], 900, n, FALSE, TRUE) :
        n \in {-1, 0, 1, 2} }

AccountEvents(t) ==
    { StuckEvent("a", t),
      PlainEvent(LLM_ERROR, t, None),
      OpenAlertsEvent(AGENT_STEP, t, Some("a"), None, Some(9), Some(10), None),
      OpenAlertsEvent(AGENT_STEP, t, Some("a"), None, Some(0), Some(0), None) }

InitAccount == InitEvaluator(AccountConfigs)

AccountProcess ==
    /\ nProcessed < MaxAccountEvents
    /\ \E e \in AccountEvents(now) : ProcessEvent(e)
    /\ UNCHANGED <<envVars, restVars, ioVars>>

AccountTick == (\E t \in AccountInstants : Tick(t)) /\ UNCHANGED <<envVars, restVars, ioVars>>

NextAccount == AccountProcess \/ AccountTick

SpecAccount == InitAccount /\ [][NextAccount]_vars

(* Properties of the evaluator's counters under SpecAccount *)

\* The sum of the per-rule fired counts.
SumStats(st) ==
    LET sum[i \in 0..Len(ALL_RULES)] ==
            IF i = 0 THEN 0 ELSE sum[i - 1] + st.stats[ALL_RULES[i]]
    IN  sum[Len(ALL_RULES)]

\* The alerts a process_event call returned in this step.
Returned == SubSeq(fires', Len(fires) + 1, Len(fires'))

\* Each alert returned in this step adds one to the hourly counter (set to 0
\* first when the call started a bucket) and one to its rule's fired count,
\* and its fingerprint's cooldown is the clock of the call.
CountedOnce ==
    /\ state'.alerts_this_hour =
          (IF state'.hour_start # state.hour_start THEN 0 ELSE state.alerts_this_hour)
          + Len(Returned)
    /\ \A r \in RuleIdSet :
          state'.stats[r] = state.stats[r]
                            + Cardinality({i \in 1..Len(Returned) : Returned[i].rule_id = r})
    /\ \A i \in 1..Len(Returned) :
          DictGet(state'.cooldowns, Returned[i].fingerprint) = Some(now)

\* The counters of st agree with the alerts fs returned since st was made.
CountersAgree(st, fs) ==
    /\ st.alerts_this_hour
          = Cardinality({i \in 1..Len(fs) : fs[i].hour_start = st.hour_start})
    /\ SumStats(st) = Len(fs)
    /\ st.alerts_this_hour >= 0

\* C40 as stated: every call counts each alert it returns once, the counters
\* agree with the alerts returned, and the hourly counter is never negative
\* nor above max_alerts_per_hour.
C40_Original ==
    [][/\ nProcessed' = nProcessed + 1 => CountedOnce
       /\ CountersAgree(state', fires')
       /\ state'.alerts_this_hour <= config.max_alerts_per_hour
    ]_vars

\* C40, amended: every call counts each alert it returns once, the hourly
\* counter is the number of alerts returned since the bucket started, the
\* per-rule fired counts add up to the number of alerts returned since the
\* state was made, and the hourly counter is never negative nor above
\* max_alerts_per_hour when that limit is not negative (under a negative
\* limit nothing fires and the counter stays 0).
C40_Accounting ==
    [][/\ nProcessed' = nProcessed + 1 => CountedOnce
       /\ CountersAgree(state', fires')
       /\ state'.alerts_this_hour <= config.max_alerts_per_hour
             \/ (config.max_alerts_per_hour < 0 /\ state'.alerts_this_hour = 0)
    ]_vars

\* Two alerts fired in the first bucket, a third match was refused by the
\* limit, and a fourth fired in the next bucket: the counter is 1, the fired
\* counts add up to 3.
C40_Witness ==
    /\ config.max_alerts_per_hour = 2
    /\ Len(fires) = 3 /\ nProcessed = 4
    /\ fires[2].hour_start = 0 /\ fires[3].hour_start = state.hour_start
    /\ state.hour_start >= 3600
    /\ state.alerts_this_hour = 1
    /\ SumStats(state) = 3

====
